---- MODULE Spec2Model ----
(***************************************************************************)
(* A model of boost::circular_buffer (include/boost/circular_buffer/       *)
(* base.hpp and details.hpp).                                              *)
(*                                                                         *)
(* The storage block is a sequence of slots; a pointer into the block is   *)
(* the offset from m_buff (0 .. capacity-1), m_end is the offset           *)
(* capacity, and the null pointer (the m_it of end()) is NULL.  A slot     *)
(* records whether an element has been constructed in it and not yet       *)
(* destroyed (live) and the value its memory holds (val).  The debug       *)
(* build is modelled: raw memory holds the UNINITIALIZED fill pattern.     *)
(* Assigning to a slot that holds no constructed element is undefined      *)
(* behaviour; the model writes the value (what the store does when the     *)
(* call returns at all), leaves the slot unconstructed and raises the      *)
(* buffer's ub flag.                                                       *)
(*                                                                         *)
(* The element type is the tests' Integer: its copy constructor and its    *)
(* assignment throw when the static exception trigger, counted down by     *)
(* each of them, reaches zero.  The trigger and what a call did (thrown,   *)
(* assigned, lost) are carried in the buffer record beside the object's    *)
(* own members; nbuff is the block a call has allocated and not yet        *)
(* installed as m_buff or released.                                        *)
(*                                                                         *)
(* The debug build's registry of valid iterators is reg, the chain         *)
(* m_iterators with the latest registered iterator first; an iterator is   *)
(* the record of its identity and its m_it.  written collects the slots    *)
(* whose element a call destroyed or overwrote.  other holds the second    *)
(* buffer of a call that takes one (swap), else nothing.                   *)
(*                                                                         *)
(* circular_buffer_space_optimized (space_optimized.hpp) is the same       *)
(* record with its member m_capacity_ctrl, which a plain circular_buffer   *)
(* does not have (the empty sequence); the capacity of the record's block  *)
(* is the internal capacity.  Where a space optimized buffer is compared   *)
(* with a plain circular_buffer given the same calls, other holds the      *)
(* plain one.                                                              *)
(***************************************************************************)
EXTENDS Integers, Sequences, FiniteSets, TLC

\* ---------------------------------------------------------------- bounds
MaxCapacity == 3
MaxCount == 3
MaxTrigger == 6
MaxLinCapacity == 5
MaxLinTrigger == 12
MaxOptimized == 4
\* The capacity of the buffer whose block is watched for thrashing.
HysteresisCapacity == 100
\* The most elements that buffer is filled with.
HysteresisSize == 34

\* The element values the operations are called with.
Values == {1, 2}

\* The byte pattern (0xcc) raw memory is filled with in the debug build.
UNINITIALIZED == 204

\* The null pointer: the m_it of an iterator equal to end().
NULL == -1

Min(a, b) == IF a < b THEN a ELSE b

\* All sequences over S of length lo..hi.
SeqsOf(S, lo, hi) == UNION {[1..n -> S] : n \in lo..hi}

\* ------------------------------------------------------ slots and cursors
RawSlot == [live |-> FALSE, val |-> UNINITIALIZED]

\* allocate(n): a block of n raw slots.
allocate(n) == [i \in 1..n |-> RawSlot]

capacity(cb) == Len(cb.buff)
size(cb) == cb.size
empty(cb) == size(cb) = 0
full(cb) == size(cb) = capacity(cb)

\* *p
deref(cb, p) == cb.buff[p + 1].val

increment(cb, p) == IF p + 1 = capacity(cb) THEN 0 ELSE p + 1

decrement(cb, p) == (IF p = 0 THEN capacity(cb) ELSE p) - 1

add(cb, p, n) == p + (IF n < capacity(cb) - p THEN n ELSE n - capacity(cb))

sub(cb, p, n) == p - (IF n > p THEN n - capacity(cb) ELSE n)

map_pointer(cb, p) == IF p = NULL THEN cb.last ELSE p

is_uninitialized(cb, p) ==
    p >= cb.last /\ (cb.first < cb.last \/ p < cb.first)

\* Integer::check_exception(): the trigger is counted down when it is set;
\* the copy or assignment that brings it to zero throws.
throws(cb) == cb.trigger = 1

check_exception(cb) ==
    IF throws(cb)
    THEN [cb EXCEPT !.trigger = 0, !.thrown = TRUE]
    ELSE [cb EXCEPT !.trigger = IF @ > 0 THEN @ - 1 ELSE 0]

\* cb_iterator_registry::invalidate_iterators(it): every registered iterator
\* whose m_it is it.m_it is invalidated and taken out of the chain.
invalidate_iterators(cb, pos) ==
    [cb EXCEPT !.reg = SelectSeq(@, LAMBDA it : it.m_it # pos)]

\* cb_iterator_registry::register_iterator(it): the iterator becomes the
\* head of the chain.
register_iterator(cb, it) == [cb EXCEPT !.reg = <<it>> \o @]

\* cb_iterator_base::is_valid() of the iterator id: its m_registry is set as
\* long as no invalidation has taken it out of the chain.
is_valid(cb, id) == \E i \in 1..Len(cb.reg) : cb.reg[i].id = id

\* m_alloc.construct(pos, item): copy-constructs item in the slot.
construct(cb, pos, item) ==
    IF throws(cb)
    THEN check_exception(cb)
    ELSE [check_exception(cb) EXCEPT
              !.buff[pos + 1] = [live |-> TRUE, val |-> item],
              !.ub = @ \/ cb.buff[pos + 1].live,
              !.written = IF cb.buff[pos + 1].live THEN @ \cup {pos} ELSE @]

\* Mutant: a replace that leaves the iterators to the slot valid.
replace_keeps_iterators(cb, pos, item) ==
    IF throws(cb)
    THEN check_exception(cb)
    ELSE [check_exception(cb) EXCEPT
              !.buff[pos + 1].val = item,
              !.ub = @ \/ ~cb.buff[pos + 1].live,
              !.assigned = @ + 1,
              !.written = @ \cup {pos}]

\* replace(pos, item): *pos = item, then the debug build's
\* invalidate_iterators(iterator(this, pos)).
replace(cb, pos, item) ==
    IF throws(cb)
    THEN check_exception(cb)
    ELSE invalidate_iterators(
             [check_exception(cb) EXCEPT
                  !.buff[pos + 1].val = item,
                  !.ub = @ \/ ~cb.buff[pos + 1].live,
                  !.assigned = @ + 1,
                  !.written = @ \cup {pos}], pos)

construct_or_replace(cb, c, pos, item) ==
    IF c THEN construct(cb, pos, item) ELSE replace(cb, pos, item)

\* destroy_item(p): m_alloc.destroy(p), then the debug build's
\* invalidate_iterators(iterator(this, p)) and memset.
destroy_item(cb, p) ==
    invalidate_iterators(
        [cb EXCEPT !.buff[p + 1] = RawSlot,
                   !.ub = @ \/ ~cb.buff[p + 1].live,
                   !.written = @ \cup {p}], p)

\* destroy_if_constructed(pos)
destroy_if_constructed(cb, pos) ==
    IF is_uninitialized(cb, pos) THEN destroy_item(cb, pos) ELSE cb

\* initialize(capacity): the state the constructor circular_buffer(capacity)
\* leaves.
initialize(cap) ==
    [buff |-> allocate(cap), first |-> 0, last |-> 0, size |-> 0, ub |-> FALSE,
     trigger |-> 0, thrown |-> FALSE, assigned |-> 0, nbuff |-> <<>>,
     lost |-> 0, reg |-> <<>>, written |-> {}, other |-> <<>>,
     m_capacity_ctrl |-> <<>>]

\* ------------------------------------------------------------ observation
\* (*this)[index]
operator_index(cb, index) == deref(cb, add(cb, cb.first, index))

\* The element sequence read through operator[].
Contents(cb) == [i \in 1..size(cb) |-> operator_index(cb, i - 1)]

\* What a call that threw std::out_of_range yields.
out_of_range == -2

\* check_position(index): TRUE when it throws.
check_position(cb, index) == index >= size(cb)

\* Mutant: an at that checks the index against the capacity.
at_checks_capacity(cb, index) ==
    IF index >= capacity(cb)
    THEN [cb |-> cb, ret |-> out_of_range]
    ELSE [cb |-> cb, ret |-> operator_index(cb, index)]

\* at(index)
at(cb, index) ==
    IF check_position(cb, index)
    THEN [cb |-> cb, ret |-> out_of_range]
    ELSE [cb |-> cb, ret |-> operator_index(cb, index)]

\* Mutant: an array_one that takes m_last = m_first for an empty run.
array_one_strict(cb) ==
    [first |-> cb.first,
     second |-> (IF cb.last < cb.first /\ ~empty(cb) THEN capacity(cb)
                 ELSE cb.last) - cb.first]

\* array_one(): the address of the first run of elements and its length.
array_one(cb) ==
    [first |-> cb.first,
     second |-> (IF cb.last <= cb.first /\ ~empty(cb) THEN capacity(cb)
                 ELSE cb.last) - cb.first]

\* array_two(): the address of the second run of elements and its length.
array_two(cb) ==
    [first |-> 0,
     second |-> IF cb.last <= cb.first /\ ~empty(cb) THEN cb.last ELSE 0]

\* The elements of an array range, in address order.
array_elements(cb, a) == [i \in 1..a.second |-> deref(cb, a.first + i - 1)]

\* The number of slots holding a constructed element.
LiveCount(cb) == Cardinality({i \in 1..capacity(cb) : cb.buff[i].live})

\* --------------------------------------------------------------- iterators
begin(cb) == IF empty(cb) THEN NULL ELSE cb.first

end(cb) == NULL

\* operator ++
it_inc(cb, it) ==
    LET p == increment(cb, it) IN IF p = cb.last THEN NULL ELSE p

\* operator -= for n > 0, operator += for n > 0
it_sub(cb, it, n) ==
    IF n > 0 THEN sub(cb, IF it = NULL THEN cb.last ELSE it, n) ELSE it

it_add(cb, it, n) ==
    IF n > 0
    THEN LET p == add(cb, it, n) IN IF p = cb.last THEN NULL ELSE p
    ELSE it

create_helper_pointer(cb, it) ==
    [m_end |-> it = NULL, m_it |-> IF it = NULL THEN cb.last ELSE it]

compare(p1, p2) == IF p1 < p2 THEN -1 ELSE IF p1 > p2 THEN 1 ELSE 0

less(cb, lhs, rhs) ==
    LET l == compare(lhs.m_it, cb.first)
        r == compare(rhs.m_it, cb.first)
    IN  CASE l = -1 -> (CASE r = -1 -> lhs.m_it < rhs.m_it
                          [] r = 0 -> rhs.m_end
                          [] r = 1 -> FALSE)
          [] l = 0 -> (CASE r = -1 -> ~lhs.m_end
                         [] r = 0 -> ~lhs.m_end /\ rhs.m_end
                         [] r = 1 -> ~lhs.m_end)
          [] l = 1 -> (CASE r = -1 -> TRUE
                         [] r = 0 -> rhs.m_end
                         [] r = 1 -> lhs.m_it < rhs.m_it)

\* Mutant: an operator - that takes the same slot for the same position.
it_diff_plain(cb, a, b) ==
    LET lhs == create_helper_pointer(cb, a)
        rhs == create_helper_pointer(cb, b)
    IN  IF lhs.m_it < rhs.m_it /\ less(cb, rhs, lhs)
        THEN lhs.m_it + capacity(cb) - rhs.m_it
        ELSE IF lhs.m_it > rhs.m_it /\ less(cb, lhs, rhs)
        THEN lhs.m_it - capacity(cb) - rhs.m_it
        ELSE lhs.m_it - rhs.m_it

\* operator - (const cb_iterator&)
it_diff(cb, a, b) ==
    LET lhs == create_helper_pointer(cb, a)
        rhs == create_helper_pointer(cb, b)
    IN  IF less(cb, rhs, lhs) /\ lhs.m_it <= rhs.m_it
        THEN lhs.m_it + capacity(cb) - rhs.m_it
        ELSE IF less(cb, lhs, rhs) /\ lhs.m_it >= rhs.m_it
        THEN lhs.m_it - capacity(cb) - rhs.m_it
        ELSE lhs.m_it - rhs.m_it

\* operator < (const cb_iterator&)
it_less(cb, a, b) ==
    less(cb, create_helper_pointer(cb, a), create_helper_pointer(cb, b))

\* The iterator begin() + k, for 0 <= k <= size().
IterAt(cb, k) == it_add(cb, begin(cb), k)

\* The iterators a caller can hold: begin() + k for k in 0..size().
Positions(cb) == 0..size(cb)

\* ------------------------------------------------------------ push and pop
\* Mutant: a full push_back that forgets to move m_first along with m_last.
push_back_keeps_first(cb, item) ==
    IF full(cb)
    THEN IF empty(cb)
         THEN cb
         ELSE LET c1 == replace(cb, cb.last, item)
              IN  [c1 EXCEPT !.last = increment(c1, c1.last)]
    ELSE LET c1 == construct(cb, cb.last, item)
         IN  [c1 EXCEPT !.last = increment(c1, c1.last), !.size = @ + 1]

\* Mutant: a push_back that copies the item before it looks at the buffer.
push_back_copies_first(cb, item) ==
    LET c0 == check_exception(cb)
    IN  IF c0.thrown THEN c0
        ELSE IF full(c0)
        THEN IF empty(c0)
             THEN c0
             ELSE LET c1 == replace(c0, c0.last, item)
                      l == increment(c1, c1.last)
                  IN  IF c1.thrown THEN c1
                      ELSE [c1 EXCEPT !.last = l, !.first = l]
        ELSE LET c1 == construct(c0, c0.last, item)
             IN  IF c1.thrown THEN c1
                 ELSE [c1 EXCEPT !.last = increment(c1, c1.last),
                                 !.size = @ + 1]

push_back(cb, item) ==
    IF full(cb)
    THEN IF empty(cb)
         THEN cb
         ELSE LET c1 == replace(cb, cb.last, item)
                  l == increment(c1, c1.last)
              IN  IF c1.thrown THEN c1
                  ELSE [c1 EXCEPT !.last = l, !.first = l]
    ELSE LET c1 == construct(cb, cb.last, item)
         IN  IF c1.thrown THEN c1
             ELSE [c1 EXCEPT !.last = increment(c1, c1.last), !.size = @ + 1]

\* Mutant: a push_front without the handler that puts m_first back.
push_front_no_catch(cb, item) ==
    IF full(cb)
    THEN IF empty(cb)
         THEN cb
         ELSE LET f == decrement(cb, cb.first)
                  c1 == replace([cb EXCEPT !.first = f], f, item)
              IN  IF c1.thrown THEN c1 ELSE [c1 EXCEPT !.last = f]
    ELSE LET f == decrement(cb, cb.first)
             c1 == construct([cb EXCEPT !.first = f], f, item)
         IN  IF c1.thrown THEN c1 ELSE [c1 EXCEPT !.size = @ + 1]

push_front(cb, item) ==
    IF full(cb)
    THEN IF empty(cb)
         THEN cb
         ELSE LET f == decrement(cb, cb.first)
                  c1 == replace([cb EXCEPT !.first = f], f, item)
              IN  IF c1.thrown
                  THEN [c1 EXCEPT !.first = increment(c1, c1.first)]
                  ELSE [c1 EXCEPT !.last = f]
    ELSE LET f == decrement(cb, cb.first)
             c1 == construct([cb EXCEPT !.first = f], f, item)
         IN  IF c1.thrown
             THEN [c1 EXCEPT !.first = increment(c1, c1.first)]
             ELSE [c1 EXCEPT !.size = @ + 1]

pop_back(cb) ==
    LET l == decrement(cb, cb.last)
        c1 == destroy_item([cb EXCEPT !.last = l], l)
    IN  [c1 EXCEPT !.size = @ - 1]

\* Mutant: a pop_front that destroys the front slot but leaves m_first on it.
pop_front_keeps_first(cb) ==
    [destroy_item(cb, cb.first) EXCEPT !.size = @ - 1]

pop_front(cb) ==
    LET c1 == destroy_item(cb, cb.first)
    IN  [c1 EXCEPT !.first = increment(c1, c1.first), !.size = @ - 1]

\* ------------------------------------------------------------------ insert
\* The shifting loop of insert_item: moves [p, m_last) one slot to the right.
\* Yields the buffer and the local variable construct as the loop leaves
\* them (by its test or by an exception).
RECURSIVE insert_item_shift(_, _, _, _, _)
insert_item_shift(cb, src, dest, c, p) ==
    IF src = p
    THEN [cb |-> cb, construct |-> c]
    ELSE LET s == decrement(cb, src)
             c1 == construct_or_replace(cb, c, dest, deref(cb, s))
         IN  IF c1.thrown
             THEN [cb |-> c1, construct |-> c]
             ELSE insert_item_shift(c1, s, decrement(cb, dest), FALSE, p)

\* Mutant: an insert_item that counts the element on a full buffer instead of
\* moving m_first.
insert_item_keeps_first(cb, pos, item) ==
    LET c0 == IF pos = NULL
              THEN construct_or_replace(cb, ~full(cb), cb.last, item)
              ELSE replace(insert_item_shift(cb, cb.last, cb.last, ~full(cb),
                                             pos).cb,
                           pos, item)
        p == IF pos = NULL THEN cb.last ELSE pos
    IN  [cb |-> [c0 EXCEPT !.last = increment(c0, c0.last),
                           !.size = Min(@ + 1, capacity(cb))],
         ret |-> p]

\* Mutant: an insert_item whose handler never counts the element the loop
\* constructed at m_last.
insert_item_no_catch(cb, pos, item) ==
    LET sh == insert_item_shift(cb, cb.last, cb.last, ~full(cb), pos)
        c0 == IF pos = NULL
              THEN construct_or_replace(cb, ~full(cb), cb.last, item)
              ELSE IF sh.cb.thrown THEN sh.cb ELSE replace(sh.cb, pos, item)
        p == IF pos = NULL THEN cb.last ELSE pos
        l == increment(c0, c0.last)
        c1 == [c0 EXCEPT !.last = l]
    IN  IF c0.thrown
        THEN [cb |-> c0, ret |-> NULL]
        ELSE [cb |-> IF full(c1) THEN [c1 EXCEPT !.first = l]
                     ELSE [c1 EXCEPT !.size = @ + 1],
              ret |-> p]

insert_item(cb, pos, item) ==
    LET sh == insert_item_shift(cb, cb.last, cb.last, ~full(cb), pos)
        c0 == IF pos = NULL
              THEN construct_or_replace(cb, ~full(cb), cb.last, item)
              ELSE IF sh.cb.thrown THEN sh.cb ELSE replace(sh.cb, pos, item)
        p == IF pos = NULL THEN cb.last ELSE pos
        l == increment(c0, c0.last)
        c1 == [c0 EXCEPT !.last = l]
    IN  IF c0.thrown
        THEN [cb |-> IF pos # NULL /\ ~sh.construct /\ ~full(c0)
                     THEN [c0 EXCEPT !.last = l, !.size = @ + 1]
                     ELSE c0,
              ret |-> NULL]
        ELSE [cb |-> IF full(c1) THEN [c1 EXCEPT !.first = l]
                     ELSE [c1 EXCEPT !.size = @ + 1],
              ret |-> p]

\* Mutant: an insert whose early return tests pos against end(), as rinsert
\* does, instead of begin().
insert_returns_at_end(cb, pos, item) ==
    IF full(cb) /\ pos = NULL
    THEN [cb |-> cb, ret |-> begin(cb)]
    ELSE insert_item(cb, pos, item)

\* insert(iterator pos, param_value_type item)
insert(cb, pos, item) ==
    IF full(cb) /\ pos = begin(cb)
    THEN [cb |-> cb, ret |-> begin(cb)]
    ELSE insert_item(cb, pos, item)

\* insert_n, pos == end(): construct into the free slots, then overwrite.
\* Yields the buffer and ii as the loops leave them.
RECURSIVE insert_n_at_end(_, _, _, _, _)
insert_n_at_end(cb, ii, p, cn, w) ==
    IF ii >= Len(w)
    THEN [cb |-> cb, ii |-> ii]
    ELSE LET c1 == construct_or_replace(cb, ii < cn, p, w[ii + 1])
         IN  IF c1.thrown
             THEN [cb |-> c1, ii |-> ii]
             ELSE insert_n_at_end(c1, ii + 1, increment(cb, p), cn, w)

\* insert_n, pos != end(): move [pos, m_last) n slots to the right.
\* Yields the buffer and dest as the loop leaves them.
RECURSIVE insert_n_shift(_, _, _, _)
insert_n_shift(cb, src, dest, pos) ==
    IF src = pos
    THEN [cb |-> cb, dest |-> dest]
    ELSE LET s == decrement(cb, src)
             c1 == construct_or_replace(cb, is_uninitialized(cb, dest), dest,
                                        deref(cb, s))
         IN  IF c1.thrown
             THEN [cb |-> c1, dest |-> dest]
             ELSE insert_n_shift(c1, s, decrement(cb, dest), pos)

\* insert_n, pos != end(): write the n new elements from pos on.
\* Yields the buffer and ii as the loop leaves them.
RECURSIVE insert_n_fill(_, _, _, _)
insert_n_fill(cb, ii, p, w) ==
    IF ii >= Len(w)
    THEN [cb |-> cb, ii |-> ii]
    ELSE LET c1 == construct_or_replace(cb, is_uninitialized(cb, p), p,
                                        w[ii + 1])
         IN  IF c1.thrown
             THEN [cb |-> c1, ii |-> ii]
             ELSE insert_n_fill(c1, ii + 1, increment(cb, p), w)

\* The handler's loop for (p = add(m_last, n - 1); p != dest; decrement(p)).
RECURSIVE insert_n_unwind_shift(_, _, _)
insert_n_unwind_shift(cb, p, dest) ==
    IF p = dest
    THEN cb
    ELSE insert_n_unwind_shift(destroy_if_constructed(cb, p),
                               decrement(cb, p), dest)

\* The handler's loop for (n = 0, p = pos.m_it; n < ii; ++n, increment(p)).
RECURSIVE insert_n_unwind_fill(_, _, _, _)
insert_n_unwind_fill(cb, n, p, ii) ==
    IF n >= ii
    THEN cb
    ELSE insert_n_unwind_fill(destroy_if_constructed(cb, p), n + 1,
                              increment(cb, p), ii)

\* Mutant: an insert_n whose handlers leave the cursors and the slots as the
\* exception found them.
insert_n_no_catch(cb, pos, w) ==
    LET n == Len(w)
        cn == Min(capacity(cb) - size(cb), n)
        ae == insert_n_at_end(cb, 0, cb.last, cn, w)
        sh == insert_n_shift(cb, cb.last, add(cb, cb.last, n - 1), pos)
        fl == IF sh.cb.thrown THEN [cb |-> sh.cb, ii |-> 0]
              ELSE insert_n_fill(sh.cb, 0, pos, w)
        c1 == IF pos = NULL THEN ae.cb ELSE fl.cb
    IN  IF c1.thrown
        THEN c1
        ELSE [c1 EXCEPT !.last = add(cb, cb.last, n),
                        !.first = add(cb, cb.first, n - cn),
                        !.size = @ + cn]

\* insert_n(pos, n, wrapper): w holds the n values the wrapper yields.
insert_n(cb, pos, w) ==
    LET n == Len(w)
        cn == Min(capacity(cb) - size(cb), n)
        ae == insert_n_at_end(cb, 0, cb.last, cn, w)
        sh == insert_n_shift(cb, cb.last, add(cb, cb.last, n - 1), pos)
        fl == IF sh.cb.thrown THEN [cb |-> sh.cb, ii |-> 0]
              ELSE insert_n_fill(sh.cb, 0, pos, w)
        c1 == IF pos = NULL THEN ae.cb ELSE fl.cb
        constructed == Min(ae.ii, cn)
    IN  IF ~c1.thrown
        THEN [c1 EXCEPT !.last = add(cb, cb.last, n),
                        !.first = add(cb, cb.first, n - cn),
                        !.size = @ + cn]
        ELSE IF pos = NULL
        THEN [c1 EXCEPT !.last = add(c1, c1.last, constructed),
                        !.size = @ + constructed]
        ELSE insert_n_unwind_fill(
                 insert_n_unwind_shift(c1, add(cb, cb.last, n - 1), sh.dest),
                 0, pos, fl.ii)

\* Mutant: an insert(pos, n, item) that cuts n to the free space.
insert_fill_free_space(cb, pos, n, item) ==
    LET copy == capacity(cb) - size(cb)
    IN  IF n = 0 \/ copy = 0
        THEN cb
        ELSE insert_n(cb, pos, [i \in 1..Min(n, copy) |-> item])

\* insert(iterator pos, size_type n, param_value_type item)
insert_fill(cb, pos, n, item) ==
    LET copy == capacity(cb) - it_diff(cb, end(cb), pos)
    IN  IF n = 0 \/ copy = 0
        THEN cb
        ELSE insert_n(cb, pos, [i \in 1..Min(n, copy) |-> item])

\* Mutant: a range insert that does not advance first past the cut elements.
insert_range_from_first(cb, pos, r) ==
    LET n == Len(r)
        copy == capacity(cb) - it_diff(cb, end(cb), pos)
    IN  IF n = 0 \/ copy = 0
        THEN cb
        ELSE insert_n(cb, pos, IF n > copy THEN SubSeq(r, 1, copy) ELSE r)

\* insert(pos, first, last) for forward iterators; r is the range [first, last).
insert_range(cb, pos, r) ==
    LET n == Len(r)
        copy == capacity(cb) - it_diff(cb, end(cb), pos)
    IN  IF n = 0 \/ copy = 0
        THEN cb
        ELSE insert_n(cb, pos,
                      IF n > copy THEN SubSeq(r, n - copy + 1, n) ELSE r)

\* The loop of insert(pos, first, last) for input iterators.
RECURSIVE insert_input_loop(_, _, _)
insert_input_loop(cb, pos, r) ==
    IF r = <<>>
    THEN cb
    ELSE LET res == insert_item(cb, pos, Head(r))
         IN  IF res.cb.thrown
             THEN res.cb
             ELSE insert_input_loop(res.cb, it_inc(res.cb, res.ret), Tail(r))

\* insert(pos, first, last) for input iterators.
insert_input(cb, pos, r) ==
    IF ~full(cb) \/ pos # begin(cb) THEN insert_input_loop(cb, pos, r) ELSE cb

\* ----------------------------------------------------------------- rinsert
\* The shifting loop of rinsert: moves [m_first, p) one slot to the left.
\* Yields the buffer and the local variable construct as the loop leaves
\* them.
RECURSIVE rinsert_shift(_, _, _, _, _)
rinsert_shift(cb, src, dest, c, p) ==
    IF src = p
    THEN [cb |-> cb, construct |-> c]
    ELSE LET c1 == construct_or_replace(cb, c, dest, deref(cb, src))
         IN  IF c1.thrown
             THEN [cb |-> c1, construct |-> c]
             ELSE rinsert_shift(c1, increment(cb, src), increment(cb, dest),
                                FALSE, p)

\* rinsert(iterator pos, param_value_type item)
rinsert(cb, pos, item) ==
    IF full(cb) /\ pos = NULL
    THEN [cb |-> cb, ret |-> end(cb)]
    ELSE LET f == decrement(cb, cb.first)
             p == IF pos = begin(cb) THEN f
                  ELSE decrement(cb, map_pointer(cb, pos))
             ab == construct_or_replace([cb EXCEPT !.first = f], ~full(cb),
                                        f, item)
             sh == rinsert_shift(cb, cb.first, f, ~full(cb),
                                 map_pointer(cb, pos))
             rp == IF sh.cb.thrown THEN sh.cb ELSE replace(sh.cb, p, item)
             c0 == IF pos = begin(cb) THEN ab ELSE [rp EXCEPT !.first = f]
         IN  IF pos = begin(cb) /\ ab.thrown
             THEN [cb |-> [ab EXCEPT !.first = increment(ab, ab.first)],
                   ret |-> NULL]
             ELSE IF pos # begin(cb) /\ rp.thrown
             THEN [cb |-> IF ~sh.construct /\ ~full(rp)
                          THEN [rp EXCEPT !.first = f, !.size = @ + 1]
                          ELSE rp,
                   ret |-> NULL]
             ELSE [cb |-> IF full(c0) THEN [c0 EXCEPT !.last = c0.first]
                          ELSE [c0 EXCEPT !.size = @ + 1],
                   ret |-> p]

\* rinsert_n, pos == begin(): overwrite the tail, then construct.
\* Yields the buffer and ii as the loops leave them.
RECURSIVE rinsert_n_at_begin(_, _, _, _, _)
rinsert_n_at_begin(cb, ii, p, cn, w) ==
    IF ii = 0
    THEN [cb |-> cb, ii |-> ii]
    ELSE LET c1 == construct_or_replace(cb, ii <= cn, p, w[Len(w) - ii + 1])
         IN  IF c1.thrown
             THEN [cb |-> c1, ii |-> ii]
             ELSE rinsert_n_at_begin(c1, ii - 1, increment(cb, p), cn, w)

\* rinsert_n, pos != begin(): move [m_first, p) n slots to the left.
RECURSIVE rinsert_n_shift(_, _, _, _)
rinsert_n_shift(cb, src, dest, p) ==
    IF src = p
    THEN [cb |-> cb, dest |-> dest]
    ELSE LET c1 == construct_or_replace(cb, is_uninitialized(cb, dest), dest,
                                        deref(cb, src))
         IN  IF c1.thrown
             THEN [cb |-> c1, dest |-> dest]
             ELSE rinsert_n_shift(c1, increment(cb, src), increment(cb, dest),
                                  p)

\* rinsert_n, pos != begin(): write the n new elements from dest on.
\* Yields the buffer and dest as the loop leaves them.
RECURSIVE rinsert_n_fill(_, _, _, _)
rinsert_n_fill(cb, ii, dest, w) ==
    IF ii >= Len(w)
    THEN [cb |-> cb, dest |-> dest]
    ELSE LET c1 == construct_or_replace(cb, is_uninitialized(cb, dest), dest,
                                        w[ii + 1])
         IN  IF c1.thrown
             THEN [cb |-> c1, dest |-> dest]
             ELSE rinsert_n_fill(c1, ii + 1, increment(cb, dest), w)

\* The handler's loop for (src = sub(m_first, n); src != dest; increment(src)).
RECURSIVE rinsert_n_unwind(_, _, _)
rinsert_n_unwind(cb, src, dest) ==
    IF src = dest
    THEN cb
    ELSE rinsert_n_unwind(destroy_if_constructed(cb, src), increment(cb, src),
                          dest)

\* Mutant: a rinsert_n that measures the space as insert does, from pos to
\* end().
rinsert_n_space_to_end(cb, pos, w) ==
    LET copy == capacity(cb) - it_diff(cb, end(cb), pos)
        n == Min(Len(w), copy)
        wn == SubSeq(w, 1, n)
        cn == Min(capacity(cb) - size(cb), n)
        sh == rinsert_n_shift(cb, cb.first, sub(cb, cb.first, n),
                              map_pointer(cb, pos))
        c1 == IF pos = begin(cb)
              THEN rinsert_n_at_begin(cb, n, sub(cb, cb.first, n), cn, wn).cb
              ELSE rinsert_n_fill(sh.cb, 0, sh.dest, wn).cb
    IN  IF Len(w) = 0 \/ copy = 0
        THEN cb
        ELSE [c1 EXCEPT !.first = sub(cb, cb.first, n),
                        !.last = sub(cb, cb.last, n - cn),
                        !.size = @ + cn]

\* rinsert_n(pos, n, wrapper): w holds the values the wrapper can yield
\* (n of them before the cut to the space left of pos).
rinsert_n(cb, pos, w) ==
    LET copy == capacity(cb) - it_diff(cb, pos, begin(cb))
        n == Min(Len(w), copy)
        wn == SubSeq(w, 1, n)
        cn == Min(capacity(cb) - size(cb), n)
        sh == rinsert_n_shift(cb, cb.first, sub(cb, cb.first, n),
                              map_pointer(cb, pos))
        ab == rinsert_n_at_begin(cb, n, sub(cb, cb.first, n), cn, wn)
        fl == IF sh.cb.thrown THEN sh
              ELSE rinsert_n_fill(sh.cb, 0, sh.dest, wn)
        c1 == IF pos = begin(cb) THEN ab.cb ELSE fl.cb
        constructed == IF ab.ii < cn THEN cn - ab.ii ELSE 0
    IN  IF Len(w) = 0 \/ copy = 0
        THEN cb
        ELSE IF ~c1.thrown
        THEN [c1 EXCEPT !.first = sub(cb, cb.first, n),
                        !.last = sub(cb, cb.last, n - cn),
                        !.size = @ + cn]
        ELSE IF pos = begin(cb)
        THEN [c1 EXCEPT !.last = add(c1, c1.last, constructed),
                        !.size = @ + constructed]
        ELSE rinsert_n_unwind(c1, sub(cb, cb.first, n), fl.dest)

\* rinsert(iterator pos, size_type n, param_value_type item)
rinsert_fill(cb, pos, n, item) == rinsert_n(cb, pos, [i \in 1..n |-> item])

\* rinsert(pos, first, last) for forward iterators.
rinsert_range(cb, pos, r) == rinsert_n(cb, pos, r)

\* The loop of rinsert(pos, first, last) for input iterators.
RECURSIVE rinsert_input_loop(_, _, _)
rinsert_input_loop(cb, pos, r) ==
    IF r = <<>>
    THEN cb
    ELSE LET res == rinsert(cb, pos, Head(r))
         IN  IF res.cb.thrown \/ res.ret = NULL
             THEN res.cb
             ELSE rinsert_input_loop(res.cb, it_inc(res.cb, res.ret), Tail(r))

\* rinsert(pos, first, last) for input iterators.
rinsert_input(cb, pos, r) ==
    IF ~full(cb) \/ pos # NULL THEN rinsert_input_loop(cb, pos, r) ELSE cb

\* ------------------------------------------------------------------- erase
\* Mutant: the loop of erase(pos) run until p, not next, reaches m_last.
RECURSIVE erase_shift_one_more(_, _, _)
erase_shift_one_more(cb, p, next) ==
    IF p = cb.last
    THEN cb
    ELSE erase_shift_one_more(replace(cb, p, deref(cb, next)), next,
                              increment(cb, next))

\* The loop of erase(pos): moves (pos, m_last) one slot to the left.
RECURSIVE erase_shift(_, _, _)
erase_shift(cb, p, next) ==
    IF next = cb.last \/ cb.thrown
    THEN cb
    ELSE erase_shift(replace(cb, p, deref(cb, next)), next, increment(cb, next))

\* Mutant: an erase(pos) that returns pos also when it erased the last element.
erase_returns_pos(cb, pos) ==
    LET c0 == erase_shift(cb, pos, increment(cb, pos))
        l == decrement(c0, c0.last)
        c1 == destroy_item([c0 EXCEPT !.last = l], l)
    IN  [cb |-> [c1 EXCEPT !.size = @ - 1], ret |-> pos]

\* erase(iterator pos)
erase(cb, pos) ==
    LET c0 == erase_shift(cb, pos, increment(cb, pos))
        l == decrement(c0, c0.last)
        c1 == destroy_item([c0 EXCEPT !.last = l], l)
    IN  IF c0.thrown
        THEN [cb |-> c0, ret |-> NULL]
        ELSE [cb |-> [c1 EXCEPT !.size = @ - 1],
              ret |-> IF l = pos THEN NULL ELSE pos]

\* The first loop of erase(first, last): moves [last, end()) down to first.
RECURSIVE erase_range_shift(_, _, _)
erase_range_shift(cb, first, last) ==
    IF last = NULL \/ cb.thrown
    THEN [cb |-> cb, first |-> first]
    ELSE erase_range_shift(replace(cb, first, deref(cb, last)),
                           it_inc(cb, first), it_inc(cb, last))

\* The do-while loop of erase(first, last): destroys from the back down to p.
RECURSIVE erase_range_destroy(_, _)
erase_range_destroy(cb, p) ==
    LET l == decrement(cb, cb.last)
        c1 == [destroy_item([cb EXCEPT !.last = l], l) EXCEPT !.size = @ - 1]
    IN  IF l # p THEN erase_range_destroy(c1, p) ELSE c1

\* erase(iterator first, iterator last)
erase_range(cb, first, last) ==
    IF first = last
    THEN [cb |-> cb, ret |-> first]
    ELSE LET sh == erase_range_shift(cb, first, last)
             c1 == erase_range_destroy(sh.cb, sh.first)
         IN  IF sh.cb.thrown
             THEN [cb |-> sh.cb, ret |-> NULL]
             ELSE [cb |-> c1, ret |-> IF c1.last = first THEN NULL ELSE first]

\* The loop of rerase(pos): moves [m_first, pos) one slot to the right.
RECURSIVE rerase_shift(_, _, _)
rerase_shift(cb, p, prev) ==
    IF p = cb.first \/ cb.thrown
    THEN cb
    ELSE rerase_shift(replace(cb, p, deref(cb, prev)), prev, decrement(cb, prev))

\* rerase(iterator pos)
rerase(cb, pos) ==
    LET c0 == rerase_shift(cb, pos, decrement(cb, pos))
        c1 == destroy_item(c0, c0.first)
        c2 == [c1 EXCEPT !.first = increment(c1, c1.first), !.size = @ - 1]
    IN  IF c0.thrown
        THEN [cb |-> c0, ret |-> NULL]
        ELSE [cb |-> c2, ret |-> IF cb.first = pos THEN begin(c2) ELSE pos]

\* The first loop of rerase(first, last): moves [begin(), first) up to last.
RECURSIVE rerase_range_shift(_, _, _)
rerase_range_shift(cb, first, p) ==
    IF first = cb.first \/ cb.thrown
    THEN [cb |-> cb, p |-> p]
    ELSE LET f == decrement(cb, first)
             q == decrement(cb, p)
         IN  rerase_range_shift(replace(cb, q, deref(cb, f)), f, q)

\* The do-while loop of rerase(first, last): destroys from the front up to p.
RECURSIVE rerase_range_destroy(_, _)
rerase_range_destroy(cb, p) ==
    LET c0 == destroy_item(cb, cb.first)
        c1 == [c0 EXCEPT !.first = increment(c0, c0.first), !.size = @ - 1]
    IN  IF c1.first # p THEN rerase_range_destroy(c1, p) ELSE c1

\* Mutant: a rerase(first, last) that returns last instead of stepping back to
\* the element in front of it.
rerase_range_returns_last(cb, first, last) ==
    IF first = last
    THEN [cb |-> cb, ret |-> first]
    ELSE LET lp == map_pointer(cb, last)
             sh == rerase_range_shift(cb, first, lp)
             c1 == rerase_range_destroy(sh.cb, sh.p)
         IN  [cb |-> c1, ret |-> IF c1.first = lp THEN begin(c1) ELSE last]

\* rerase(iterator first, iterator last)
rerase_range(cb, first, last) ==
    IF first = last
    THEN [cb |-> cb, ret |-> first]
    ELSE LET lp == map_pointer(cb, last)
             sh == rerase_range_shift(cb, first, lp)
             c1 == rerase_range_destroy(sh.cb, sh.p)
         IN  IF sh.cb.thrown
             THEN [cb |-> sh.cb, ret |-> NULL]
             ELSE [cb |-> c1,
                   ret |-> IF c1.first = lp
                           THEN begin(c1)
                           ELSE decrement(c1, lp)]

\* destroy_content()
RECURSIVE destroy_content_loop(_, _)
destroy_content_loop(cb, ii) ==
    IF ii >= size(cb)
    THEN cb
    ELSE LET c1 == destroy_item(cb, cb.first)
         IN  destroy_content_loop([c1 EXCEPT !.first = increment(c1, c1.first)],
                                  ii + 1)

destroy_content(cb) == destroy_content_loop(cb, 0)

\* clear()
clear(cb) == [destroy_content(cb) EXCEPT !.size = 0]

\* --------------------------------------------------------------- linearize
\* Mutant: an exchange of *src and *dest that keeps no copy of *src.
linearize_swap_without_tmp(cb, src, dest) ==
    LET c2 == replace(cb, src, deref(cb, dest))
    IN  IF c2.thrown THEN c2 ELSE replace(c2, dest, deref(c2, src))

\* The else branch of the inner loop of linearize:
\* value_type tmp = *src; replace(src, *dest); replace(dest, tmp);
linearize_swap(cb, src, dest) ==
    LET c1 == check_exception(cb)
        c2 == replace(c1, src, deref(c1, dest))
    IN  IF c1.thrown THEN c1
        ELSE IF c2.thrown THEN c2
        ELSE replace(c2, dest, deref(cb, src))

\* The two nested loops of linearize, entered at the test of the inner one;
\* src, dest and first are plain pointers (src runs up to m_end).  Yields the
\* buffer and the count of elements constructed in raw slots.
RECURSIVE linearize_loop(_, _, _, _, _, _, _)
linearize_loop(cb, src, dest, first, moved, constructed, ii) ==
    LET \* the outer loop's src = first and its test dest < src
        outer(f) == IF dest < f
                    THEN linearize_loop(cb, f, dest, f, moved, constructed, 0)
                    ELSE [cb |-> cb, constructed |-> constructed]
    IN  IF src < capacity(cb)
        THEN IF moved = size(cb) THEN outer(dest)
             ELSE IF dest = first THEN outer(first + ii)
             ELSE LET c == is_uninitialized(cb, dest)
                      c1 == IF c THEN construct(cb, dest, deref(cb, src))
                            ELSE linearize_swap(cb, src, dest)
                      k == IF c THEN constructed + 1 ELSE constructed
                  IN  IF c1.thrown
                      THEN [cb |-> c1, constructed |-> constructed]
                      ELSE linearize_loop(c1, src + 1, dest + 1, first,
                                          moved + 1, k, ii + 1)
        ELSE outer(first)

\* The loop of linearize that destroys the slots [m_end - constructed, m_end).
RECURSIVE linearize_destroy(_, _)
linearize_destroy(cb, src) ==
    IF src < capacity(cb)
    THEN linearize_destroy(destroy_item(cb, src), src + 1)
    ELSE cb

\* Mutant: a linearize that returns where the elements began before the call.
linearize_returns_old_first(cb) ==
    IF empty(cb) THEN [cb |-> cb, ret |-> NULL]
    ELSE IF cb.first < cb.last \/ cb.last = 0 THEN [cb |-> cb, ret |-> cb.first]
    ELSE LET lp == IF 0 < cb.first
                   THEN linearize_loop(cb, cb.first, 0, cb.first, 0, 0, 0)
                   ELSE [cb |-> cb, constructed |-> 0]
             c1 == linearize_destroy(lp.cb, capacity(cb) - lp.constructed)
         IN  [cb |-> [c1 EXCEPT !.first = 0, !.last = add(c1, 0, size(c1))],
              ret |-> cb.first]

\* Mutant: a linearize that leaves m_first where it was.
linearize_keeps_first(cb) ==
    IF empty(cb) THEN [cb |-> cb, ret |-> NULL]
    ELSE IF cb.first < cb.last \/ cb.last = 0 THEN [cb |-> cb, ret |-> cb.first]
    ELSE LET lp == IF 0 < cb.first
                   THEN linearize_loop(cb, cb.first, 0, cb.first, 0, 0, 0)
                   ELSE [cb |-> cb, constructed |-> 0]
             c1 == linearize_destroy(lp.cb, capacity(cb) - lp.constructed)
         IN  [cb |-> [c1 EXCEPT !.last = add(c1, 0, size(c1))], ret |-> 0]

\* Mutant: a linearize whose handler does not count the elements it had
\* constructed.
linearize_no_catch(cb) ==
    IF empty(cb) THEN [cb |-> cb, ret |-> NULL]
    ELSE IF cb.first < cb.last \/ cb.last = 0 THEN [cb |-> cb, ret |-> cb.first]
    ELSE LET lp == IF 0 < cb.first
                   THEN linearize_loop(cb, cb.first, 0, cb.first, 0, 0, 0)
                   ELSE [cb |-> cb, constructed |-> 0]
             c1 == linearize_destroy(lp.cb, capacity(cb) - lp.constructed)
         IN  IF lp.cb.thrown
             THEN [cb |-> lp.cb, ret |-> NULL]
             ELSE [cb |-> [c1 EXCEPT !.first = 0,
                                     !.last = add(c1, 0, size(c1))],
                   ret |-> 0]

\* linearize(): yields the buffer and the returned pointer (NULL for 0).
linearize(cb) ==
    IF empty(cb) THEN [cb |-> cb, ret |-> NULL]
    ELSE IF cb.first < cb.last \/ cb.last = 0 THEN [cb |-> cb, ret |-> cb.first]
    ELSE LET lp == IF 0 < cb.first
                   THEN linearize_loop(cb, cb.first, 0, cb.first, 0, 0, 0)
                   ELSE [cb |-> cb, constructed |-> 0]
             c1 == linearize_destroy(lp.cb, capacity(cb) - lp.constructed)
         IN  IF lp.cb.thrown
             THEN [cb |-> [lp.cb EXCEPT !.last = @ + lp.constructed,
                                        !.size = @ + lp.constructed],
                   ret |-> NULL]
             ELSE [cb |-> [c1 EXCEPT !.first = 0,
                                     !.last = add(c1, 0, size(c1))],
                   ret |-> 0]

\* ------------------------------------------------- capacity and assignment
\* The number of elements constructed in a block.
LiveIn(blk) == Cardinality({i \in 1..Len(blk) : blk[i].live})

\* deallocate(p, n): the block is released; elements still constructed in it
\* are lost without their destructor having run.
deallocate(cb, blk) == [cb EXCEPT !.lost = @ + LiveIn(blk)]

\* The values *first yields while first runs up to last over the buffer.
RECURSIVE range(_, _, _)
range(cb, first, last) ==
    IF first = last THEN <<>>
    ELSE <<deref(cb, first)>> \o range(cb, it_inc(cb, first), last)

\* The handler of cb_details::uninitialized_copy / uninitialized_fill_n:
\* for (; next != dest; ++next) alloc.destroy(next);
RECURSIVE uninitialized_unwind(_, _, _)
uninitialized_unwind(blk, next, dest) ==
    IF next = dest THEN blk
    ELSE uninitialized_unwind([blk EXCEPT ![next + 1] = RawSlot], next + 1, dest)

\* cb_details::uninitialized_copy(first, last, dest, alloc), src being the
\* values of [first, last) and blk the block dest points into.  Yields the
\* block and the returned dest.
RECURSIVE uninitialized_copy(_, _, _, _, _)
uninitialized_copy(cb, src, blk, next, dest) ==
    IF src = <<>> THEN [cb |-> cb, blk |-> blk, dest |-> dest]
    ELSE IF throws(cb)
    THEN [cb |-> check_exception(cb),
          blk |-> uninitialized_unwind(blk, next, dest), dest |-> dest]
    ELSE uninitialized_copy(
             check_exception(cb), Tail(src),
             [blk EXCEPT ![dest + 1] = [live |-> TRUE, val |-> Head(src)]],
             next, dest + 1)

\* cb_details::uninitialized_fill_n(first, n, item, alloc)
RECURSIVE uninitialized_fill_n(_, _, _, _, _, _)
uninitialized_fill_n(cb, blk, next, first, n, item) ==
    IF n <= 0 THEN [cb |-> cb, blk |-> blk]
    ELSE IF throws(cb)
    THEN [cb |-> check_exception(cb),
          blk |-> uninitialized_unwind(blk, next, first)]
    ELSE uninitialized_fill_n(
             check_exception(cb),
             [blk EXCEPT ![first + 1] = [live |-> TRUE, val |-> item]],
             next, first + 1, n - 1, item)

\* destroy(): destroy_content() and deallocate(m_buff, capacity()).
destroy(cb) ==
    LET c1 == destroy_content(cb) IN deallocate(c1, c1.buff)

\* reset(buff, last, new_capacity)
reset(cb, buff, last, new_capacity) ==
    [destroy(cb) EXCEPT !.size = last, !.first = 0, !.buff = buff,
                        !.last = IF last = new_capacity THEN 0 ELSE last]

\* Mutant: a set_capacity whose handler does not release the new block.
set_capacity_keeps_block(cb, new_capacity) ==
    IF new_capacity = capacity(cb) THEN cb
    ELSE LET k == Min(new_capacity, size(cb))
             uc == uninitialized_copy(cb, range(cb, it_sub(cb, end(cb), k),
                                                end(cb)),
                                      allocate(new_capacity), 0, 0)
         IN  IF uc.cb.thrown
             THEN [uc.cb EXCEPT !.nbuff = uc.blk]
             ELSE reset(uc.cb, uc.blk, uc.dest, new_capacity)

\* Mutant: a set_capacity that keeps the first elements, as rset_capacity
\* does.
set_capacity_keeps_first(cb, new_capacity) ==
    IF new_capacity = capacity(cb) THEN cb
    ELSE LET k == Min(new_capacity, size(cb))
             uc == uninitialized_copy(cb, range(cb, begin(cb),
                                                it_add(cb, begin(cb), k)),
                                      allocate(new_capacity), 0, 0)
         IN  IF uc.cb.thrown
             THEN deallocate(uc.cb, uc.blk)
             ELSE reset(uc.cb, uc.blk, uc.dest, new_capacity)

\* set_capacity(new_capacity)
set_capacity(cb, new_capacity) ==
    IF new_capacity = capacity(cb) THEN cb
    ELSE LET k == Min(new_capacity, size(cb))
             uc == uninitialized_copy(cb, range(cb, it_sub(cb, end(cb), k),
                                                end(cb)),
                                      allocate(new_capacity), 0, 0)
         IN  IF uc.cb.thrown
             THEN deallocate(uc.cb, uc.blk)
             ELSE reset(uc.cb, uc.blk, uc.dest, new_capacity)

\* rset_capacity(new_capacity)
rset_capacity(cb, new_capacity) ==
    IF new_capacity = capacity(cb) THEN cb
    ELSE LET k == Min(new_capacity, size(cb))
             uc == uninitialized_copy(cb, range(cb, begin(cb),
                                                it_add(cb, begin(cb), k)),
                                      allocate(new_capacity), 0, 0)
         IN  IF uc.cb.thrown
             THEN deallocate(uc.cb, uc.blk)
             ELSE reset(uc.cb, uc.blk, uc.dest, new_capacity)

\* increase_size(new_size, item)
increase_size(cb, new_size, item) ==
    LET c1 == IF new_size > capacity(cb) THEN set_capacity(cb, new_size)
              ELSE cb
    IN  IF c1.thrown
        THEN c1
        ELSE insert_fill(c1, end(c1), new_size - size(c1), item)

\* Mutant: a resize that cuts a longer buffer at its end, as rresize does.
resize_cuts_the_end(cb, new_size, item) ==
    IF new_size > size(cb)
    THEN increase_size(cb, new_size, item)
    ELSE erase_range(cb, it_add(cb, begin(cb), new_size), end(cb)).cb

\* resize(new_size, item)
resize(cb, new_size, item) ==
    IF new_size > size(cb)
    THEN increase_size(cb, new_size, item)
    ELSE erase_range(cb, begin(cb), it_sub(cb, end(cb), new_size)).cb

\* rresize(new_size, item)
rresize(cb, new_size, item) ==
    IF new_size > size(cb)
    THEN increase_size(cb, new_size, item)
    ELSE erase_range(cb, it_add(cb, begin(cb), new_size), end(cb)).cb

\* cb_details::assign_n(n, item, alloc): the functor that fills the first n
\* slots of a block with copies of item.
assign_n_functor(n, item) == [fill |-> TRUE, n |-> n, item |-> item, r |-> <<>>]

\* cb_details::assign_range(first, last, alloc): the functor that copies the
\* range to the first slots of a block.
assign_range_functor(r) == [fill |-> FALSE, n |-> Len(r), item |-> 0, r |-> r]

\* fnc(p): the functor applied to the block blk.
functor_call(fnc, cb, blk) ==
    IF fnc.fill
    THEN uninitialized_fill_n(cb, blk, 0, 0, fnc.n, fnc.item)
    ELSE LET uc == uninitialized_copy(cb, fnc.r, blk, 0, 0)
         IN  [cb |-> uc.cb, blk |-> uc.blk]

\* Mutant: an assign_n whose handler leaves m_size as it was.
assign_n_keeps_size(cb, new_capacity, n, fnc) ==
    LET done(c) == [c EXCEPT !.size = n, !.first = 0, !.last = add(c, 0, n)]
    IN  IF new_capacity = capacity(cb)
        THEN LET c1 == destroy_content(cb)
                 f == functor_call(fnc, c1, c1.buff)
             IN  IF f.cb.thrown
                 THEN [f.cb EXCEPT !.buff = f.blk]
                 ELSE done([f.cb EXCEPT !.buff = f.blk])
        ELSE LET f == functor_call(fnc, cb, allocate(new_capacity))
             IN  IF f.cb.thrown
                 THEN deallocate(f.cb, f.blk)
                 ELSE done([destroy(f.cb) EXCEPT !.buff = f.blk])

\* assign_n(new_capacity, n, fnc)
assign_n(cb, new_capacity, n, fnc) ==
    LET done(c) == [c EXCEPT !.size = n, !.first = 0, !.last = add(c, 0, n)]
    IN  IF new_capacity = capacity(cb)
        THEN LET c1 == destroy_content(cb)
                 f == functor_call(fnc, c1, c1.buff)
             IN  IF f.cb.thrown
                 THEN [f.cb EXCEPT !.buff = f.blk, !.size = 0]
                 ELSE done([f.cb EXCEPT !.buff = f.blk])
        ELSE LET f == functor_call(fnc, cb, allocate(new_capacity))
             IN  IF f.cb.thrown
                 THEN deallocate(f.cb, f.blk)
                 ELSE done([destroy(f.cb) EXCEPT !.buff = f.blk])

\* Mutant: an assign that keeps a block larger than n.
assign_keeps_capacity(cb, n, item) ==
    assign_n(cb, IF capacity(cb) > n THEN capacity(cb) ELSE n, n,
             assign_n_functor(n, item))

\* assign(n, item)
assign(cb, n, item) == assign_n(cb, n, n, assign_n_functor(n, item))

\* assign(first, last) for forward iterators, r being the range's values
assign_range(cb, r) == assign_n(cb, Len(r), Len(r), assign_range_functor(r))

\* The copies std::deque<value_type> tmp(first, last) makes of the range.
RECURSIVE deque(_, _)
deque(cb, r) ==
    IF r = <<>> \/ cb.thrown THEN cb ELSE deque(check_exception(cb), Tail(r))

\* assign(first, last) for input iterators
assign_input(cb, r) ==
    LET c1 == deque(cb, r)
    IN  IF c1.thrown THEN c1 ELSE assign_range(c1, r)

\* ------------------------------------------------------------ constructors
\* The members of an object under construction, before initialize(); t is
\* the exception trigger at that time.
Constructing(t) == [initialize(0) EXCEPT !.trigger = t]

\* A constructor left by an exception yields no object: what the record then
\* holds in buff or nbuff is a block nobody releases any more.

\* initialize(capacity, item) with m_size = n; circular_buffer(n, item) calls
\* it with capacity = n.
initialize_item(t, cap, n, item) ==
    LET f == uninitialized_fill_n(Constructing(t), allocate(cap), 0, 0, n, item)
    IN  IF f.cb.thrown
        THEN deallocate(f.cb, f.blk)
        ELSE [f.cb EXCEPT !.buff = f.blk, !.size = n]

\* circular_buffer(const circular_buffer& cb): m_end is what
\* uninitialized_copy returns.
copy_constructor(cb) ==
    LET uc == uninitialized_copy(Constructing(cb.trigger),
                                 range(cb, begin(cb), end(cb)),
                                 allocate(capacity(cb)), 0, 0)
    IN  IF uc.cb.thrown
        THEN deallocate(uc.cb, uc.blk)
        ELSE [uc.cb EXCEPT !.buff = SubSeq(uc.blk, 1, uc.dest),
                           !.size = size(cb)]

\* Mutant: a copy assignment that takes a block of just the elements.
operator_assign_exact(a, b, self) ==
    IF self THEN a
    ELSE LET uc == uninitialized_copy(a, range(b, begin(b), end(b)),
                                      allocate(capacity(b)), 0, 0)
         IN  IF uc.cb.thrown
             THEN deallocate(uc.cb, uc.blk)
             ELSE reset(uc.cb, SubSeq(uc.blk, 1, uc.dest), uc.dest, uc.dest)

\* a = b (operator =); self is this == &b.
operator_assign(a, b, self) ==
    IF self THEN a
    ELSE LET uc == uninitialized_copy(a, range(b, begin(b), end(b)),
                                      allocate(capacity(b)), 0, 0)
         IN  IF uc.cb.thrown
             THEN deallocate(uc.cb, uc.blk)
             ELSE reset(uc.cb, uc.blk, uc.dest, capacity(b))

\* initialize(capacity, first, last, distance), r being the range's values
initialize_range(t, cap, r) ==
    LET distance == Len(r)
        src == IF distance > cap
               THEN SubSeq(r, distance - cap + 1, distance)
               ELSE r
        n == IF distance > cap THEN cap ELSE distance
        uc == uninitialized_copy(Constructing(t), src, allocate(cap), 0, 0)
    IN  IF uc.cb.thrown
        THEN deallocate(uc.cb, uc.blk)
        ELSE [uc.cb EXCEPT !.buff = uc.blk, !.size = n,
                           !.last = IF distance > cap \/ distance = cap
                                    THEN 0 ELSE n]

\* initialize(first, last, input_iterator_tag)
initialize_input(t, r) ==
    LET c1 == deque(Constructing(t), r)
    IN  IF c1.thrown THEN c1 ELSE initialize_range(c1.trigger, Len(r), r)

\* The two loops of initialize(capacity, first, last, input_iterator_tag).
RECURSIVE initialize_input_loop(_, _)
initialize_input_loop(cb, r) ==
    IF r = <<>> THEN cb
    ELSE IF ~full(cb)
    THEN LET c1 == construct(cb, cb.last, Head(r))
         IN  IF c1.thrown THEN c1
             ELSE initialize_input_loop(
                      [c1 EXCEPT !.last = increment(c1, c1.last),
                                 !.size = @ + 1], Tail(r))
    ELSE LET c1 == replace(cb, cb.last, Head(r))
             l == increment(c1, c1.last)
         IN  IF c1.thrown THEN c1
             ELSE initialize_input_loop([c1 EXCEPT !.last = l, !.first = l],
                                        Tail(r))

\* initialize(capacity, first, last, input_iterator_tag)
initialize_input_capacity(t, cap, r) ==
    LET c0 == [Constructing(t) EXCEPT !.buff = allocate(cap)]
    IN  IF cap = 0 THEN c0 ELSE initialize_input_loop(c0, r)

\* -------------------------------------------------------------- destructor
\* ~circular_buffer(): destroy(), whose debug build then nulls m_buff,
\* m_first, m_last and m_end.  The registry base class has no destructor of
\* its own.
destructor(cb) == [destroy(cb) EXCEPT !.buff = <<>>, !.first = 0, !.last = 0]

\* -------------------------------------------------------------------- swap
\* cb_iterator_registry::invalidate_all_iterators()
invalidate_all_iterators(cb) == [cb EXCEPT !.reg = <<>>]

\* Mutant: a swap that leaves m_size with its buffer.
swap_keeps_size(a, b) ==
    [a |-> invalidate_all_iterators(
               [a EXCEPT !.buff = b.buff, !.first = b.first, !.last = b.last]),
     b |-> invalidate_all_iterators(
               [b EXCEPT !.buff = a.buff, !.first = a.first, !.last = a.last])]

\* a.swap(b): m_buff and m_end (the block), m_first, m_last and m_size change
\* hands; the registries stay and are emptied.
swap(a, b) ==
    [a |-> invalidate_all_iterators(
               [a EXCEPT !.buff = b.buff, !.first = b.first, !.last = b.last,
                         !.size = b.size]),
     b |-> invalidate_all_iterators(
               [b EXCEPT !.buff = a.buff, !.first = a.first, !.last = a.last,
                         !.size = a.size])]

\* ------------------------------------------------------- held iterators
\* The caller takes the iterators begin() + k for every k in 0..size()
\* (the last is end()) and a copy of each; iterator k and its copy
\* k + MaxCapacity + 1 are registered one after the other.
RECURSIVE take_iterators(_, _)
take_iterators(cb, k) ==
    IF k > size(cb) THEN cb
    ELSE LET it == IterAt(cb, k)
             c1 == register_iterator(cb, [id |-> k, m_it |-> it])
             c2 == register_iterator(c1, [id |-> k + MaxCapacity + 1,
                                          m_it |-> it])
         IN  take_iterators(c2, k + 1)

\* ------------------------------------------- circular_buffer_space_optimized
\* capacity_control(capacity, min_capacity)
capacity_control(c, m) == [m_capacity |-> c, m_min_capacity |-> m]

\* capacity(): the capacity the user asked for.
optimized_capacity(cb) == cb.m_capacity_ctrl[1].m_capacity

min_capacity(cb) == cb.m_capacity_ctrl[1].m_min_capacity

\* internal_capacity(): the capacity of the block.
internal_capacity(cb) == capacity(cb)

optimized_full(cb) == optimized_capacity(cb) = size(cb)

\* Mutant: an ensure_reserve that does not stop at the capacity.
ensure_reserve_unbounded(cb, new_capacity, sz) ==
    IF sz + new_capacity \div 5 >= new_capacity
    THEN new_capacity * 2
    ELSE new_capacity

\* ensure_reserve(new_capacity, size)
ensure_reserve(cb, new_capacity, sz) ==
    LET nc == IF sz + new_capacity \div 5 >= new_capacity
              THEN new_capacity * 2
              ELSE new_capacity
    IN  IF nc > optimized_capacity(cb) THEN optimized_capacity(cb) ELSE nc

\* The loop of check_low_capacity: for (; new_size > new_capacity;
\* new_capacity *= 2);
RECURSIVE check_low_capacity_loop(_, _)
check_low_capacity_loop(new_size, new_capacity) ==
    IF new_size > new_capacity
    THEN check_low_capacity_loop(new_size, new_capacity * 2)
    ELSE new_capacity

\* check_low_capacity(n)
check_low_capacity(cb, n) ==
    LET new_size == size(cb) + n
        new_capacity == capacity(cb)
    IN  IF new_size > new_capacity
        THEN set_capacity(cb, ensure_reserve(cb,
                 check_low_capacity_loop(new_size,
                     IF new_capacity = 0 THEN 1 ELSE new_capacity),
                 new_size))
        ELSE cb

\* Mutant: a loop of check_high_capacity that halves once.
check_high_capacity_once(cb, new_capacity) ==
    IF new_capacity \div 3 >= size(cb)
    THEN IF new_capacity \div 2 <= min_capacity(cb)
         THEN min_capacity(cb)
         ELSE new_capacity \div 2
    ELSE new_capacity

\* The loop of check_high_capacity.
RECURSIVE check_high_capacity_loop(_, _)
check_high_capacity_loop(cb, new_capacity) ==
    IF new_capacity \div 3 >= size(cb)
    THEN IF new_capacity \div 2 <= min_capacity(cb)
         THEN min_capacity(cb)
         ELSE check_high_capacity_loop(cb, new_capacity \div 2)
    ELSE new_capacity

\* check_high_capacity()
check_high_capacity(cb) ==
    set_capacity(cb, ensure_reserve(cb,
        check_high_capacity_loop(cb, capacity(cb)), size(cb)))

\* set_min_capacity(new_min_capacity)
set_min_capacity(cb, new_min_capacity) ==
    IF new_min_capacity > capacity(cb)
    THEN set_capacity(cb, new_min_capacity)
    ELSE check_high_capacity(cb)

\* init_capacity(capacity_ctrl, n)
init_capacity(ctrl, n) ==
    IF ctrl.m_min_capacity > n THEN ctrl.m_min_capacity ELSE n

\* init_capacity(capacity_ctrl, first, last, forward_iterator_tag)
init_capacity_range(ctrl, r) == Min(ctrl.m_capacity, init_capacity(ctrl, Len(r)))

\* push_back(item)
optimized_push_back(cb, item) ==
    LET c1 == check_low_capacity(cb, 1)
    IN  IF c1.thrown THEN c1 ELSE push_back(c1, item)

\* push_front(item)
optimized_push_front(cb, item) ==
    LET c1 == check_low_capacity(cb, 1)
    IN  IF c1.thrown THEN c1 ELSE push_front(c1, item)

\* pop_back()
optimized_pop_back(cb) == check_high_capacity(pop_back(cb))

\* pop_front()
optimized_pop_front(cb) == check_high_capacity(pop_front(cb))

\* insert(pos, item)
optimized_insert(cb, pos, item) ==
    LET index == it_diff(cb, pos, begin(cb))
        c1 == check_low_capacity(cb, 1)
    IN  IF c1.thrown THEN [cb |-> c1, ret |-> NULL]
        ELSE insert(c1, IterAt(c1, index), item)

\* insert(pos, n, item)
optimized_insert_fill(cb, pos, n, item) ==
    LET index == it_diff(cb, pos, begin(cb))
        c1 == check_low_capacity(cb, n)
    IN  IF c1.thrown THEN c1 ELSE insert_fill(c1, IterAt(c1, index), n, item)

\* rinsert(pos, item)
optimized_rinsert(cb, pos, item) ==
    LET index == it_diff(cb, pos, begin(cb))
        c1 == check_low_capacity(cb, 1)
    IN  IF c1.thrown THEN [cb |-> c1, ret |-> NULL]
        ELSE rinsert(c1, IterAt(c1, index), item)

\* rinsert(pos, n, item)
optimized_rinsert_fill(cb, pos, n, item) ==
    LET index == it_diff(cb, pos, begin(cb))
        c1 == check_low_capacity(cb, n)
    IN  IF c1.thrown THEN c1 ELSE rinsert_fill(c1, IterAt(c1, index), n, item)

\* The end of the four erasing calls: index = it - begin();
\* check_high_capacity(); return begin() + index.
erase_check_high_capacity(res) ==
    IF res.cb.thrown THEN res
    ELSE LET index == it_diff(res.cb, res.ret, begin(res.cb))
             c1 == check_high_capacity(res.cb)
         IN  [cb |-> c1, ret |-> IF c1.thrown THEN NULL ELSE IterAt(c1, index)]

\* erase(pos)
optimized_erase(cb, pos) == erase_check_high_capacity(erase(cb, pos))

\* erase(first, last)
optimized_erase_range(cb, first, last) ==
    erase_check_high_capacity(erase_range(cb, first, last))

\* rerase(pos)
optimized_rerase(cb, pos) == erase_check_high_capacity(rerase(cb, pos))

\* rerase(first, last)
optimized_rerase_range(cb, first, last) ==
    erase_check_high_capacity(rerase_range(cb, first, last))

\* clear()
optimized_clear(cb) == optimized_erase_range(cb, begin(cb), end(cb)).cb

\* invalidate_iterators_except(it): every registered iterator but those
\* equal to it is invalidated.
invalidate_iterators_except(cb, pos) ==
    [cb EXCEPT !.reg = SelectSeq(@, LAMBDA it : it.m_it = pos)]

\* set_capacity(capacity_ctrl)
optimized_set_capacity(cb, ctrl) ==
    LET c0 == [cb EXCEPT !.m_capacity_ctrl = <<ctrl>>]
        c1 == IF ctrl.m_capacity < capacity(c0)
              THEN set_capacity(c0, ctrl.m_capacity)
              ELSE c0
        c2 == IF c1.thrown THEN c1
              ELSE set_min_capacity(c1, ctrl.m_min_capacity)
    IN  IF c2.thrown THEN c2 ELSE invalidate_iterators_except(c2, end(c2))

\* rset_capacity(capacity_ctrl)
optimized_rset_capacity(cb, ctrl) ==
    LET c0 == [cb EXCEPT !.m_capacity_ctrl = <<ctrl>>]
        c1 == IF ctrl.m_capacity < capacity(c0)
              THEN rset_capacity(c0, ctrl.m_capacity)
              ELSE c0
        c2 == IF c1.thrown THEN c1
              ELSE set_min_capacity(c1, ctrl.m_min_capacity)
    IN  IF c2.thrown THEN c2 ELSE invalidate_iterators_except(c2, end(c2))

\* Mutant: a resize that leaves the registered iterators alone.
optimized_resize_keeps_iterators(cb, new_size, item) ==
    IF new_size > size(cb)
    THEN LET c0 == IF new_size > optimized_capacity(cb)
                   THEN [cb EXCEPT !.m_capacity_ctrl[1].m_capacity = new_size]
                   ELSE cb
         IN  optimized_insert_fill(c0, end(c0), new_size - size(c0), item)
    ELSE optimized_erase_range(cb,
             it_sub(cb, end(cb), size(cb) - new_size), end(cb)).cb

\* resize(new_size, item)
optimized_resize(cb, new_size, item) ==
    LET c1 == IF new_size > size(cb)
              THEN LET c0 == IF new_size > optimized_capacity(cb)
                             THEN [cb EXCEPT
                                   !.m_capacity_ctrl[1].m_capacity = new_size]
                             ELSE cb
                   IN  optimized_insert_fill(c0, end(c0),
                                             new_size - size(c0), item)
              ELSE optimized_erase_range(cb,
                       it_sub(cb, end(cb), size(cb) - new_size), end(cb)).cb
    IN  IF c1.thrown THEN c1 ELSE invalidate_iterators_except(c1, end(c1))

\* rresize(new_size, item)
optimized_rresize(cb, new_size, item) ==
    LET c1 == IF new_size > size(cb)
              THEN LET c0 == IF new_size > optimized_capacity(cb)
                             THEN [cb EXCEPT
                                   !.m_capacity_ctrl[1].m_capacity = new_size]
                             ELSE cb
                   IN  optimized_rinsert_fill(c0, begin(c0),
                                              new_size - size(c0), item)
              ELSE optimized_rerase_range(cb, begin(cb),
                       it_sub(cb, end(cb), new_size)).cb
    IN  IF c1.thrown THEN c1 ELSE invalidate_iterators_except(c1, end(c1))

\* assign(n, item)
optimized_assign(cb, n, item) ==
    LET c1 == assign(cb, n, item)
    IN  IF c1.thrown THEN c1
        ELSE [c1 EXCEPT !.m_capacity_ctrl = <<capacity_control(n, 0)>>]

\* assign(capacity_ctrl, n, item)
optimized_assign_capacity(cb, ctrl, n, item) ==
    LET c1 == assign_n(cb, init_capacity(ctrl, n), n,
                       assign_n_functor(n, item))
    IN  IF c1.thrown THEN c1 ELSE [c1 EXCEPT !.m_capacity_ctrl = <<ctrl>>]

\* circular_buffer_space_optimized(capacity_ctrl)
optimized_initialize(ctrl) ==
    [initialize(ctrl.m_min_capacity) EXCEPT !.m_capacity_ctrl = <<ctrl>>]

\* circular_buffer_space_optimized(capacity_ctrl, item)
optimized_initialize_item(ctrl, item) ==
    [initialize_item(0, ctrl.m_capacity, ctrl.m_capacity, item)
         EXCEPT !.m_capacity_ctrl = <<ctrl>>]

\* circular_buffer_space_optimized(capacity_ctrl, n, item)
optimized_initialize_n(ctrl, n, item) ==
    [initialize_item(0, init_capacity(ctrl, n), n, item)
         EXCEPT !.m_capacity_ctrl = <<ctrl>>]

\* circular_buffer_space_optimized(const circular_buffer_space_optimized& cb)
optimized_copy_constructor(cb) ==
    [initialize_range(cb.trigger, size(cb), Contents(cb))
         EXCEPT !.m_capacity_ctrl = cb.m_capacity_ctrl]

\* circular_buffer_space_optimized(capacity_ctrl, first, last), the range
\* being given by forward iterators
optimized_initialize_range(ctrl, r) ==
    check_high_capacity(
        [initialize_range(0, init_capacity_range(ctrl, r), r)
             EXCEPT !.m_capacity_ctrl = <<ctrl>>])

\* ------------------------------------------------------------ the machine
\* cb: the circular_buffer object.  op: the record of the call that produced
\* cb (its name, the buffer it was called on, its arguments and what it
\* returned), kept until the caller drops it (Forget).  A call is made once
\* the previous record has been dropped, so every reachable buffer is called
\* upon with every argument tuple, and each call's outcome is one state.
VARIABLES cb, op

vars == <<cb, op>>

\* The record of a call: pos/pos2 are the logical indices of the iterator
\* arguments, n a count, w the item or range passed, ret the returned m_it.
Call(name, pre, pos, pos2, n, w, ret) ==
    [name |-> name, pre |-> pre, pos |-> pos, pos2 |-> pos2, n |-> n, w |-> w,
     ret |-> ret]

\* The buffer as a call finds it.
Entry ==
    [cb EXCEPT !.ub = FALSE, !.thrown = FALSE, !.assigned = 0, !.lost = 0,
               !.written = {}]

\* The buffer once the caller has looked at what the call did: the record of
\* the call is cleared and the exception trigger is off.
Settled ==
    [cb EXCEPT !.trigger = 0, !.thrown = FALSE, !.assigned = 0, !.lost = 0,
               !.written = {}, !.reg = <<>>, !.other = <<>>]

Idle == Call("idle", initialize(0), 0, 0, 0, <<>>, NULL)

idle == op = Idle

Ranges == SeqsOf(Values, 0, MaxCount)

Init ==
    \E c \in 0..MaxCapacity :
        /\ cb = initialize(c)
        /\ op = Call("circular_buffer", initialize(c), 0, 0, c, <<>>, NULL)

PushBack ==
    /\ idle
    /\ \E x \in Values :
        /\ cb' = push_back(Entry, x)
        /\ op' = Call("push_back", Entry, 0, 0, 0, <<x>>, NULL)

PushFront ==
    /\ idle
    /\ \E x \in Values :
        /\ cb' = push_front(Entry, x)
        /\ op' = Call("push_front", Entry, 0, 0, 0, <<x>>, NULL)

PopBack ==
    /\ idle
    /\ ~empty(cb)
    /\ cb' = pop_back(Entry)
    /\ op' = Call("pop_back", Entry, 0, 0, 0, <<>>, NULL)

PopFront ==
    /\ idle
    /\ ~empty(cb)
    /\ cb' = pop_front(Entry)
    /\ op' = Call("pop_front", Entry, 0, 0, 0, <<>>, NULL)

Insert ==
    /\ idle
    /\ \E k \in Positions(cb), x \in Values :
        LET res == insert(Entry, IterAt(Entry, k), x)
        IN  /\ cb' = res.cb
            /\ op' = Call("insert", Entry, k, 0, 0, <<x>>, res.ret)

InsertFill ==
    /\ idle
    /\ \E k \in Positions(cb), n \in 0..MaxCount, x \in Values :
        /\ cb' = insert_fill(Entry, IterAt(Entry, k), n, x)
        /\ op' = Call("insert_fill", Entry, k, 0, n, <<x>>, NULL)

InsertRange ==
    /\ idle
    /\ \E k \in Positions(cb), r \in Ranges :
        /\ cb' = insert_range(Entry, IterAt(Entry, k), r)
        /\ op' = Call("insert_range", Entry, k, 0, Len(r), r, NULL)

InsertInput ==
    /\ idle
    /\ \E k \in Positions(cb), r \in Ranges :
        /\ cb' = insert_input(Entry, IterAt(Entry, k), r)
        /\ op' = Call("insert_input", Entry, k, 0, Len(r), r, NULL)

RInsert ==
    /\ idle
    /\ \E k \in Positions(cb), x \in Values :
        LET res == rinsert(Entry, IterAt(Entry, k), x)
        IN  /\ cb' = res.cb
            /\ op' = Call("rinsert", Entry, k, 0, 0, <<x>>, res.ret)

RInsertFill ==
    /\ idle
    /\ \E k \in Positions(cb), n \in 0..MaxCount, x \in Values :
        /\ cb' = rinsert_fill(Entry, IterAt(Entry, k), n, x)
        /\ op' = Call("rinsert_fill", Entry, k, 0, n, <<x>>, NULL)

RInsertRange ==
    /\ idle
    /\ \E k \in Positions(cb), r \in Ranges :
        /\ cb' = rinsert_range(Entry, IterAt(Entry, k), r)
        /\ op' = Call("rinsert_range", Entry, k, 0, Len(r), r, NULL)

RInsertInput ==
    /\ idle
    /\ \E k \in Positions(cb), r \in Ranges :
        /\ cb' = rinsert_input(Entry, IterAt(Entry, k), r)
        /\ op' = Call("rinsert_input", Entry, k, 0, Len(r), r, NULL)

Erase ==
    /\ idle
    /\ \E k \in 0..(size(cb) - 1) :
        LET res == erase(Entry, IterAt(Entry, k))
        IN  /\ cb' = res.cb
            /\ op' = Call("erase", Entry, k, 0, 0, <<>>, res.ret)

EraseRange ==
    /\ idle
    /\ \E k \in Positions(cb), k2 \in Positions(cb) :
        /\ k <= k2
        /\ LET res == erase_range(Entry, IterAt(Entry, k), IterAt(Entry, k2))
           IN  /\ cb' = res.cb
               /\ op' = Call("erase_range", Entry, k, k2, 0, <<>>, res.ret)

RErase ==
    /\ idle
    /\ \E k \in 0..(size(cb) - 1) :
        LET res == rerase(Entry, IterAt(Entry, k))
        IN  /\ cb' = res.cb
            /\ op' = Call("rerase", Entry, k, 0, 0, <<>>, res.ret)

REraseRange ==
    /\ idle
    /\ \E k \in Positions(cb), k2 \in Positions(cb) :
        /\ k <= k2
        /\ LET res == rerase_range(Entry, IterAt(Entry, k), IterAt(Entry, k2))
           IN  /\ cb' = res.cb
               /\ op' = Call("rerase_range", Entry, k, k2, 0, <<>>, res.ret)

Clear ==
    /\ idle
    /\ cb' = clear(Entry)
    /\ op' = Call("clear", Entry, 0, 0, 0, <<>>, NULL)

\* linearize(), also called a second time right after it returned.
Linearize ==
    /\ idle \/ (op.name = "linearize" /\ op.n = 1 /\ ~cb.thrown)
    /\ LET res == linearize(Entry)
       IN  /\ cb' = res.cb
           /\ op' = Call("linearize", Entry, 0, 0,
                         IF op.name = "linearize" THEN 2 ELSE 1, <<>>, res.ret)

SetCapacity ==
    /\ idle
    /\ \E n \in 0..MaxCapacity :
        /\ cb' = set_capacity(Entry, n)
        /\ op' = Call("set_capacity", Entry, 0, 0, n, <<>>, NULL)

RSetCapacity ==
    /\ idle
    /\ \E n \in 0..MaxCapacity :
        /\ cb' = rset_capacity(Entry, n)
        /\ op' = Call("rset_capacity", Entry, 0, 0, n, <<>>, NULL)

Resize ==
    /\ idle
    /\ \E n \in 0..MaxCapacity, x \in Values :
        /\ cb' = resize(Entry, n, x)
        /\ op' = Call("resize", Entry, 0, 0, n, <<x>>, NULL)

RResize ==
    /\ idle
    /\ \E n \in 0..MaxCapacity, x \in Values :
        /\ cb' = rresize(Entry, n, x)
        /\ op' = Call("rresize", Entry, 0, 0, n, <<x>>, NULL)

Assign ==
    /\ idle
    /\ \E n \in 0..MaxCapacity, x \in Values :
        /\ cb' = assign(Entry, n, x)
        /\ op' = Call("assign", Entry, 0, 0, n, <<x>>, NULL)

AssignRange ==
    /\ idle
    /\ \E r \in Ranges :
        /\ cb' = assign_range(Entry, r)
        /\ op' = Call("assign_range", Entry, 0, 0, Len(r), r, NULL)

AssignInput ==
    /\ idle
    /\ \E r \in Ranges :
        /\ cb' = assign_input(Entry, r)
        /\ op' = Call("assign_input", Entry, 0, 0, Len(r), r, NULL)

\* circular_buffer(capacity)
Construct ==
    /\ idle
    /\ \E c \in 0..MaxCapacity :
        /\ cb' = [initialize(c) EXCEPT !.trigger = cb.trigger]
        /\ op' = Call("circular_buffer", Entry, 0, 0, c, <<>>, NULL)

\* circular_buffer(n, item)
ConstructFill ==
    /\ idle
    /\ \E n \in 0..MaxCapacity, x \in Values :
        /\ cb' = initialize_item(cb.trigger, n, n, x)
        /\ op' = Call("circular_buffer_fill", Entry, 0, 0, n, <<x>>, NULL)

\* circular_buffer(const circular_buffer&), the program going on with the copy
ConstructCopy ==
    /\ idle
    /\ cb' = copy_constructor(Entry)
    /\ op' = Call("circular_buffer_copy", Entry, 0, 0, 0, <<>>, NULL)

\* cb.at(index)
At ==
    /\ idle
    /\ \E index \in 0..(MaxCapacity + 1) :
        LET res == at(Entry, index)
        IN  /\ cb' = res.cb
            /\ op' = Call("at", Entry, index, 0, 0, <<>>, res.ret)

\* (begin() + p) - (begin() + q) and (begin() + p) < (begin() + q); the
\* record of the call holds the difference, and 1 in pos2 where less holds.
CompareIterators ==
    /\ idle
    /\ \E p \in Positions(cb), q \in Positions(cb) :
        /\ cb' = Entry
        /\ op' = Call("iterator_compare", Entry, p,
                      IF it_less(Entry, IterAt(Entry, p), IterAt(Entry, q))
                      THEN 1 ELSE 0,
                      q, <<>>,
                      it_diff(Entry, IterAt(Entry, p), IterAt(Entry, q)))

\* cb.array_one() and cb.array_two(); the record of the call holds the two
\* lengths (pos2 and n), the two addresses (pos and ret) and the elements of
\* the first array followed by those of the second (w).
Arrays ==
    /\ idle
    /\ LET a1 == array_one(Entry)
           a2 == array_two(Entry)
       IN  /\ cb' = Entry
           /\ op' = Call("array", Entry, a1.first, a1.second, a2.second,
                         array_elements(Entry, a1) \o array_elements(Entry, a2),
                         a2.first)

\* a = cb, a being a buffer built from a range; cb becomes a.
OperatorAssign ==
    /\ idle
    /\ \E c \in 0..MaxCapacity, r \in Ranges :
        LET a == [initialize_range(0, c, r) EXCEPT !.trigger = cb.trigger]
        IN  /\ ~a.thrown
            /\ cb' = operator_assign(a, Entry, FALSE)
            /\ op' = Call("operator_assign", Entry, 0, 0, c, r, NULL)

\* cb = cb
OperatorAssignSelf ==
    /\ idle
    /\ cb' = operator_assign(Entry, Entry, TRUE)
    /\ op' = Call("operator_assign_self", Entry, 0, 0, 0, <<>>, NULL)

\* circular_buffer(first, last) and circular_buffer(capacity, first, last)
\* for forward iterators
ConstructRange ==
    /\ idle
    /\ \E c \in 0..MaxCapacity, r \in Ranges :
        /\ cb' = initialize_range(cb.trigger, c, r)
        /\ op' = Call("circular_buffer_range", Entry, 0, 0, c, r, NULL)

\* circular_buffer(first, last) for input iterators
ConstructInput ==
    /\ idle
    /\ \E r \in Ranges :
        /\ cb' = initialize_input(cb.trigger, r)
        /\ op' = Call("circular_buffer_input", Entry, 0, 0, Len(r), r, NULL)

\* circular_buffer(capacity, first, last) for input iterators
ConstructInputCapacity ==
    /\ idle
    /\ \E c \in 0..MaxCapacity, r \in Ranges :
        /\ cb' = initialize_input_capacity(cb.trigger, c, r)
        /\ op' = Call("circular_buffer_input_capacity", Entry, 0, 0, c, r, NULL)

\* The caller takes iterators to every position of the buffer.
TakeIterators ==
    /\ idle
    /\ cb.reg = <<>>
    /\ size(cb) <= MaxCapacity
    /\ cb' = take_iterators(cb, 0)
    /\ UNCHANGED op

\* cb.swap(b), b being a second buffer built from a range with the caller
\* holding its iterators too; b is kept in cb.other.
Swap ==
    /\ idle
    /\ \E c \in 0..MaxCapacity, r \in Ranges :
        LET b == take_iterators(initialize_range(0, c, r), 0)
            sw == swap(Entry, b)
        IN  /\ cb' = [sw.a EXCEPT !.other = <<sw.b>>]
            /\ op' = Call("swap", [Entry EXCEPT !.other = <<b>>], 0, 0, c, r,
                          NULL)

\* The buffer goes out of scope while the caller still holds its iterators.
Destructor ==
    /\ idle
    /\ cb' = destructor(Entry)
    /\ op' = Call("destructor", Entry, 0, 0, 0, <<>>, NULL)

\* ---- circular_buffer_space_optimized
\* The capacity controls a caller passes.
Ctrls == {capacity_control(c, m) : c \in 0..MaxOptimized, m \in 0..MaxOptimized}

\* The plain circular_buffer kept beside the space optimized one, as a call
\* finds it.
Plain ==
    [cb.other[1] EXCEPT !.ub = FALSE, !.thrown = FALSE, !.assigned = 0,
                        !.lost = 0, !.written = {}]

\* What becomes of the plain buffer, where there is one.
Beside(c) == IF cb.other = <<>> THEN <<>> ELSE <<c>>

is_optimized == cb.m_capacity_ctrl # <<>>

\* The elements a caller puts in: they are told apart where the sequence is
\* compared with the plain buffer's, and are all alike elsewhere.
OptimizedValues == IF cb.other = <<>> THEN {1} ELSE Values

\* m_last is where the elements end.
WellFormed ==
    cb.last = IF capacity(cb) = 0 THEN 0
              ELSE (cb.first + size(cb)) % capacity(cb)

InitOptimized ==
    \E ctrl \in Ctrls :
        /\ ctrl.m_min_capacity <= ctrl.m_capacity
        /\ cb = optimized_initialize(ctrl)
        /\ op = Call("circular_buffer_space_optimized", initialize(0),
                     ctrl.m_min_capacity, 0, ctrl.m_capacity, <<>>, NULL)

\* A space optimized buffer and a plain circular_buffer of its capacity.
InitMirror ==
    \E ctrl \in Ctrls :
        /\ ctrl.m_min_capacity <= ctrl.m_capacity
        /\ ctrl.m_capacity < MaxCapacity
        /\ cb = [optimized_initialize(ctrl)
                     EXCEPT !.other = <<initialize(ctrl.m_capacity)>>]
        /\ op = Call("circular_buffer_space_optimized", initialize(0),
                     ctrl.m_min_capacity, 0, ctrl.m_capacity, <<>>, NULL)

\* A buffer whose constructor left m_last off the end of its elements is
\* not used again.
OptimizedForget ==
    /\ ~idle
    /\ ~cb.thrown
    /\ WellFormed
    /\ op' = Idle
    /\ cb' = [Settled EXCEPT !.other = Beside(Plain)]

OptimizedConstruct ==
    /\ idle
    /\ \E ctrl \in Ctrls :
        /\ ctrl.m_min_capacity <= ctrl.m_capacity
        /\ LET c1 == optimized_initialize(ctrl)
           IN  /\ cb' = c1
               /\ op' = Call("circular_buffer_space_optimized", initialize(0),
                             ctrl.m_min_capacity, 0, ctrl.m_capacity, <<>>,
                             NULL)

OptimizedConstructItem ==
    /\ idle
    /\ \E ctrl \in Ctrls, x \in OptimizedValues :
        /\ ctrl.m_min_capacity <= ctrl.m_capacity
        /\ LET c1 == optimized_initialize_item(ctrl, x)
           IN  /\ cb' = c1
               /\ op' = Call("circular_buffer_space_optimized_item", initialize(0),
                             ctrl.m_min_capacity, 0, ctrl.m_capacity, <<x>>,
                             NULL)

\* capacity_ctrl.capacity() >= n is the constructor's precondition.
OptimizedConstructFill ==
    /\ idle
    /\ \E ctrl \in Ctrls, n \in 0..MaxOptimized, x \in OptimizedValues :
        /\ ctrl.m_min_capacity <= ctrl.m_capacity
        /\ n <= ctrl.m_capacity
        /\ LET c1 == optimized_initialize_n(ctrl, n, x)
           IN  /\ cb' = c1
               /\ op' = Call("circular_buffer_space_optimized_n", initialize(0),
                             ctrl.m_min_capacity, n, ctrl.m_capacity, <<x>>,
                             NULL)

OptimizedConstructCopy ==
    /\ idle
    /\ is_optimized
    /\ LET c1 == optimized_copy_constructor(Entry)
       IN  /\ cb' = c1
           /\ op' = Call("circular_buffer_space_optimized_copy", Entry,
                         0, 0, 0, <<>>, NULL)

OptimizedConstructRange ==
    /\ idle
    /\ \E ctrl \in Ctrls, r \in SeqsOf(OptimizedValues, 0, MaxCount) :
        /\ ctrl.m_min_capacity <= ctrl.m_capacity
        /\ LET c1 == optimized_initialize_range(ctrl, r)
           IN  /\ cb' = c1
               /\ op' = Call("circular_buffer_space_optimized_range", initialize(0),
                             ctrl.m_min_capacity, 0, ctrl.m_capacity, r, NULL)

OptimizedPushBack ==
    /\ idle
    /\ is_optimized
    /\ \E x \in OptimizedValues :
        /\ cb' = [optimized_push_back(Entry, x)
                      EXCEPT !.other = Beside(push_back(Plain, x))]
        /\ op' = Call("optimized_push_back", Entry, 0, 0, 0, <<x>>, NULL)

OptimizedPushFront ==
    /\ idle
    /\ is_optimized
    /\ \E x \in OptimizedValues :
        /\ cb' = [optimized_push_front(Entry, x)
                      EXCEPT !.other = Beside(push_front(Plain, x))]
        /\ op' = Call("optimized_push_front", Entry, 0, 0, 0, <<x>>, NULL)

OptimizedPopBack ==
    /\ idle
    /\ is_optimized
    /\ ~empty(cb)
    /\ cb' = [optimized_pop_back(Entry)
                  EXCEPT !.other = Beside(pop_back(Plain))]
    /\ op' = Call("optimized_pop_back", Entry, 0, 0, 0, <<>>, NULL)

OptimizedPopFront ==
    /\ idle
    /\ is_optimized
    /\ ~empty(cb)
    /\ cb' = [optimized_pop_front(Entry)
                  EXCEPT !.other = Beside(pop_front(Plain))]
    /\ op' = Call("optimized_pop_front", Entry, 0, 0, 0, <<>>, NULL)

OptimizedInsert ==
    /\ idle
    /\ is_optimized
    /\ \E k \in Positions(cb), x \in OptimizedValues :
        LET res == optimized_insert(Entry, IterAt(Entry, k), x)
        IN  /\ cb' = [res.cb EXCEPT !.other =
                          Beside(insert(Plain, IterAt(Plain, k), x).cb)]
            /\ op' = Call("optimized_insert", Entry, k, 0, 0, <<x>>, res.ret)

OptimizedInsertFill ==
    /\ idle
    /\ is_optimized
    /\ \E k \in Positions(cb), n \in 0..MaxCount, x \in OptimizedValues :
        /\ cb' = [optimized_insert_fill(Entry, IterAt(Entry, k), n, x)
                      EXCEPT !.other =
                          Beside(insert_fill(Plain, IterAt(Plain, k), n, x))]
        /\ op' = Call("optimized_insert_fill", Entry, k, 0, n, <<x>>, NULL)

OptimizedRInsert ==
    /\ idle
    /\ is_optimized
    /\ \E k \in Positions(cb), x \in OptimizedValues :
        LET res == optimized_rinsert(Entry, IterAt(Entry, k), x)
        IN  /\ cb' = [res.cb EXCEPT !.other =
                          Beside(rinsert(Plain, IterAt(Plain, k), x).cb)]
            /\ op' = Call("optimized_rinsert", Entry, k, 0, 0, <<x>>, res.ret)

OptimizedRInsertFill ==
    /\ idle
    /\ is_optimized
    /\ \E k \in Positions(cb), n \in 0..MaxCount, x \in OptimizedValues :
        /\ cb' = [optimized_rinsert_fill(Entry, IterAt(Entry, k), n, x)
                      EXCEPT !.other =
                          Beside(rinsert_fill(Plain, IterAt(Plain, k), n, x))]
        /\ op' = Call("optimized_rinsert_fill", Entry, k, 0, n, <<x>>, NULL)

OptimizedErase ==
    /\ idle
    /\ is_optimized
    /\ \E k \in 0..(size(cb) - 1) :
        LET res == optimized_erase(Entry, IterAt(Entry, k))
        IN  /\ cb' = [res.cb EXCEPT !.other =
                          Beside(erase(Plain, IterAt(Plain, k)).cb)]
            /\ op' = Call("optimized_erase", Entry, k, 0, 0, <<>>, res.ret)

OptimizedEraseRange ==
    /\ idle
    /\ is_optimized
    /\ \E k \in Positions(cb), k2 \in Positions(cb) :
        /\ k <= k2
        /\ LET res == optimized_erase_range(Entry, IterAt(Entry, k),
                                            IterAt(Entry, k2))
           IN  /\ cb' = [res.cb EXCEPT !.other =
                             Beside(erase_range(Plain, IterAt(Plain, k),
                                                IterAt(Plain, k2)).cb)]
               /\ op' = Call("optimized_erase_range", Entry, k, k2, 0, <<>>,
                             res.ret)

OptimizedRErase ==
    /\ idle
    /\ is_optimized
    /\ \E k \in 0..(size(cb) - 1) :
        LET res == optimized_rerase(Entry, IterAt(Entry, k))
        IN  /\ cb' = [res.cb EXCEPT !.other =
                          Beside(rerase(Plain, IterAt(Plain, k)).cb)]
            /\ op' = Call("optimized_rerase", Entry, k, 0, 0, <<>>, res.ret)

OptimizedREraseRange ==
    /\ idle
    /\ is_optimized
    /\ \E k \in Positions(cb), k2 \in Positions(cb) :
        /\ k <= k2
        /\ LET res == optimized_rerase_range(Entry, IterAt(Entry, k),
                                             IterAt(Entry, k2))
           IN  /\ cb' = [res.cb EXCEPT !.other =
                             Beside(rerase_range(Plain, IterAt(Plain, k),
                                                 IterAt(Plain, k2)).cb)]
               /\ op' = Call("optimized_rerase_range", Entry, k, k2, 0, <<>>,
                             res.ret)

OptimizedClear ==
    /\ idle
    /\ is_optimized
    /\ cb' = [optimized_clear(Entry) EXCEPT !.other = Beside(clear(Plain))]
    /\ op' = Call("optimized_clear", Entry, 0, 0, 0, <<>>, NULL)

\* capacity_ctrl.capacity() >= capacity_ctrl.min_capacity() is the
\* precondition of capacity_control.
OptimizedSetCapacity ==
    /\ idle
    /\ is_optimized
    /\ \E ctrl \in Ctrls :
        /\ ctrl.m_min_capacity <= ctrl.m_capacity
        /\ LET c1 == optimized_set_capacity(Entry, ctrl)
           IN  /\ cb' = c1
               /\ op' = Call("optimized_set_capacity", Entry,
                             ctrl.m_min_capacity, 0, ctrl.m_capacity, <<>>,
                             NULL)

OptimizedRSetCapacity ==
    /\ idle
    /\ is_optimized
    /\ \E ctrl \in Ctrls :
        /\ ctrl.m_min_capacity <= ctrl.m_capacity
        /\ LET c1 == optimized_rset_capacity(Entry, ctrl)
           IN  /\ cb' = c1
               /\ op' = Call("optimized_rset_capacity", Entry,
                             ctrl.m_min_capacity, 0, ctrl.m_capacity, <<>>,
                             NULL)

OptimizedResize ==
    /\ idle
    /\ is_optimized
    /\ \E n \in 0..MaxOptimized, x \in OptimizedValues :
        LET c1 == optimized_resize(Entry, n, x)
        IN  /\ cb' = c1
            /\ op' = Call("optimized_resize", Entry, 0, 0, n, <<x>>, NULL)

OptimizedRResize ==
    /\ idle
    /\ is_optimized
    /\ \E n \in 0..MaxOptimized, x \in OptimizedValues :
        LET c1 == optimized_rresize(Entry, n, x)
        IN  /\ cb' = c1
            /\ op' = Call("optimized_rresize", Entry, 0, 0, n, <<x>>, NULL)

OptimizedAssign ==
    /\ idle
    /\ is_optimized
    /\ \E n \in 0..MaxOptimized, x \in OptimizedValues :
        LET c1 == optimized_assign(Entry, n, x)
        IN  /\ cb' = c1
            /\ op' = Call("optimized_assign", Entry, 0, 0, n, <<x>>, NULL)

\* capacity_ctrl.capacity() >= n is asserted by the call.
OptimizedAssignCapacity ==
    /\ idle
    /\ is_optimized
    /\ \E ctrl \in Ctrls, n \in 0..MaxOptimized, x \in OptimizedValues :
        /\ ctrl.m_min_capacity <= ctrl.m_capacity
        /\ n <= ctrl.m_capacity
        /\ LET c1 == optimized_assign_capacity(Entry, ctrl, n, x)
           IN  /\ cb' = c1
               /\ op' = Call("optimized_assign_capacity", Entry,
                             ctrl.m_min_capacity, n, ctrl.m_capacity, <<x>>,
                             NULL)

\* An empty space optimized buffer of capacity HysteresisCapacity, with no
\* minimal capacity.
InitHysteresis ==
    /\ cb = optimized_initialize(capacity_control(HysteresisCapacity, 0))
    /\ op = Call("circular_buffer_space_optimized", initialize(0),
                 0, 0, HysteresisCapacity, <<>>, NULL)

\* push_back made right after the last call returned.
PushBackNext ==
    /\ is_optimized
    /\ ~cb.thrown
    /\ size(cb) < HysteresisSize
    /\ cb' = optimized_push_back(Entry, 1)
    /\ op' = Call("optimized_push_back", Entry, 0, 0, 0, <<1>>, NULL)

\* pop_back made right after the last call returned.
PopBackNext ==
    /\ is_optimized
    /\ ~cb.thrown
    /\ ~empty(cb)
    /\ cb' = optimized_pop_back(Entry)
    /\ op' = Call("optimized_pop_back", Entry, 0, 0, 0, <<>>, NULL)

\* cb.swap(cb)
SwapSelf ==
    /\ idle
    /\ cb' = swap(Entry, Entry).a
    /\ op' = Call("swap_self", Entry, 0, 0, 0, <<>>, NULL)

\* Integer::set_exception_trigger(n): the n-th copy or assignment of an
\* element from now on throws.
SetExceptionTrigger ==
    /\ idle
    /\ cb.trigger = 0
    /\ \E n \in 1..MaxTrigger : cb' = [cb EXCEPT !.trigger = n]
    /\ UNCHANGED op

\* The caller is done with the result of the last call.  A buffer that a
\* call was left from by an exception is not used again (each buffer of
\* exception_safety_test sees one exception).
Forget ==
    /\ ~idle
    /\ ~cb.thrown
    /\ op.name # "destructor"
    /\ op' = Idle
    /\ cb' = Settled

Next ==
    \/ Forget
    \/ PushBack
    \/ PushFront
    \/ PopBack
    \/ PopFront
    \/ Insert
    \/ InsertFill
    \/ InsertRange
    \/ InsertInput
    \/ RInsert
    \/ RInsertFill
    \/ RInsertRange
    \/ RInsertInput
    \/ Erase
    \/ EraseRange
    \/ RErase
    \/ REraseRange
    \/ Clear
    \/ Linearize

Spec == Init /\ [][Next]_vars

\* The same calls on elements whose copying may throw.
NextThrow ==
    \/ SetExceptionTrigger
    \/ Forget
    \/ PushBack
    \/ PushFront
    \/ PopBack
    \/ PopFront
    \/ Insert
    \/ InsertFill
    \/ InsertRange
    \/ InsertInput
    \/ RInsert
    \/ RInsertFill
    \/ RInsertRange
    \/ RInsertInput
    \/ Erase
    \/ EraseRange
    \/ RErase
    \/ REraseRange
    \/ Clear
    \/ Linearize

SpecThrow == Init /\ [][NextThrow]_vars

\* linearize() on larger buffers, which its rearranging needs: the buffers
\* are brought into every layout by push_back and pop_front alone.
InitLinearize ==
    \E c \in 0..MaxLinCapacity :
        /\ cb = initialize(c)
        /\ op = Call("circular_buffer", initialize(c), 0, 0, c, <<>>, NULL)

SetExceptionTriggerLinearize ==
    /\ idle
    /\ cb.trigger = 0
    /\ \E n \in 1..MaxLinTrigger : cb' = [cb EXCEPT !.trigger = n]
    /\ UNCHANGED op

NextLinearize ==
    \/ SetExceptionTriggerLinearize
    \/ Forget
    \/ PushBack
    \/ PopFront
    \/ Linearize

SpecLinearize == InitLinearize /\ [][NextLinearize]_vars

\* The calls that replace the storage block, on buffers brought into every
\* layout by pushes and pops, with elements whose copying may throw.
NextStorage ==
    \/ SetExceptionTrigger
    \/ Forget
    \/ PushBack
    \/ PushFront
    \/ PopFront
    \/ SetCapacity
    \/ RSetCapacity
    \/ Assign
    \/ AssignRange
    \/ AssignInput

SpecStorage == Init /\ [][NextStorage]_vars

\* The constructors, with elements whose copying may throw; pushes and pops
\* bring the buffer a copy is made of into every layout.
NextConstruct ==
    \/ SetExceptionTrigger
    \/ Forget
    \/ PushBack
    \/ PopFront
    \/ Construct
    \/ ConstructFill
    \/ ConstructCopy
    \/ ConstructRange
    \/ ConstructInput
    \/ ConstructInputCapacity

SpecConstruct == Init /\ [][NextConstruct]_vars

\* Copy construction and copy assignment, from buffers brought into every
\* layout by pushes and pops.
NextCopy ==
    \/ Forget
    \/ PushBack
    \/ PushFront
    \/ PopFront
    \/ ConstructCopy
    \/ OperatorAssign
    \/ OperatorAssignSelf

SpecCopy == Init /\ [][NextCopy]_vars

\* The calls that only look at the buffer, on buffers brought into every
\* layout by pushes and pops.
NextObserve ==
    \/ Forget
    \/ PushBack
    \/ PushFront
    \/ PopBack
    \/ PopFront
    \/ At
    \/ CompareIterators
    \/ Arrays

SpecObserve == Init /\ [][NextObserve]_vars

\* The calls of Spec in the debug build, on a buffer whose iterators the
\* caller holds.
NextDebug ==
    \/ TakeIterators
    \/ Next

SpecDebug == Init /\ [][NextDebug]_vars

\* The calls that invalidate iterators wholesale, in the debug build, on
\* buffers brought into every layout by pushes and pops.
NextRegistry ==
    \/ TakeIterators
    \/ Forget
    \/ PushBack
    \/ PushFront
    \/ PopFront
    \/ Swap
    \/ SwapSelf
    \/ Destructor

SpecRegistry == Init /\ [][NextRegistry]_vars

\* The calls that change the size or the capacity as a whole, on buffers
\* brought into every layout by pushes and pops, with the caller holding
\* iterators.
NextResize ==
    \/ TakeIterators
    \/ Forget
    \/ PushBack
    \/ PushFront
    \/ PopFront
    \/ SetCapacity
    \/ RSetCapacity
    \/ Resize
    \/ RResize
    \/ Clear

SpecResize == Init /\ [][NextResize]_vars

\* The space optimized buffer: its constructors and calls.
NextOptimized ==
    \/ OptimizedForget
    \/ OptimizedConstruct
    \/ OptimizedConstructItem
    \/ OptimizedConstructFill
    \/ OptimizedConstructCopy
    \/ OptimizedConstructRange
    \/ OptimizedPushBack
    \/ OptimizedPushFront
    \/ OptimizedPopBack
    \/ OptimizedPopFront
    \/ OptimizedInsert
    \/ OptimizedInsertFill
    \/ OptimizedRInsert
    \/ OptimizedRInsertFill
    \/ OptimizedErase
    \/ OptimizedEraseRange
    \/ OptimizedRErase
    \/ OptimizedREraseRange
    \/ OptimizedClear
    \/ OptimizedSetCapacity
    \/ OptimizedRSetCapacity
    \/ OptimizedResize
    \/ OptimizedRResize
    \/ OptimizedAssign
    \/ OptimizedAssignCapacity

SpecOptimized == InitOptimized /\ [][NextOptimized]_vars

\* A space optimized buffer and a plain circular_buffer given the same
\* pushes, pops, insertions, erasures and clears.
NextMirror ==
    \/ OptimizedForget
    \/ OptimizedPushBack
    \/ OptimizedPushFront
    \/ OptimizedPopBack
    \/ OptimizedPopFront
    \/ OptimizedInsert
    \/ OptimizedInsertFill
    \/ OptimizedRInsert
    \/ OptimizedRInsertFill
    \/ OptimizedErase
    \/ OptimizedEraseRange
    \/ OptimizedRErase
    \/ OptimizedREraseRange
    \/ OptimizedClear

SpecMirror == InitMirror /\ [][NextMirror]_vars

\* The calls that invalidate iterators wholesale, on a plain buffer and on a
\* space optimized one, with the caller holding iterators.
InitInvalidate == Init \/ InitOptimized

NextInvalidate ==
    \/ TakeIterators
    \/ Forget
    \/ /\ ~is_optimized
       /\ \/ PushBack
          \/ PushFront
          \/ PopFront
          \/ SetCapacity
          \/ RSetCapacity
          \/ Resize
          \/ RResize
          \/ Clear
          \/ Assign
    \/ OptimizedPushBack
    \/ OptimizedPushFront
    \/ OptimizedPopBack
    \/ OptimizedPopFront
    \/ OptimizedSetCapacity
    \/ OptimizedRSetCapacity
    \/ OptimizedResize
    \/ OptimizedRResize
    \/ OptimizedClear

SpecInvalidate == InitInvalidate /\ [][NextInvalidate]_vars

\* Single pushes and pops, one right after the other, on a space optimized
\* buffer that starts empty.
NextHysteresis ==
    \/ PushBackNext
    \/ PopBackNext

SpecHysteresis == InitHysteresis /\ [][NextHysteresis]_vars

\* ================================================================= claims
\* What the last call was made on, and with what.
Pre == Contents(op.pre)

PreCap == capacity(op.pre)

PreSize == size(op.pre)

Item == op.w[1]

Max(a, b) == IF a > b THEN a ELSE b

Copies(m, x) == [i \in 1..m |-> x]

\* pre with ins put before index op.pos, cut to the capacity from the front
\* (what insert is to leave) and from the back (what rinsert is to leave).
FrontEvicted(ins) ==
    LET all == SubSeq(Pre, 1, op.pos) \o ins \o SubSeq(Pre, op.pos + 1, PreSize)
    IN  SubSeq(all, Max(0, Len(all) - PreCap) + 1, Len(all))

BackEvicted(ins) ==
    LET all == SubSeq(Pre, 1, op.pos) \o ins \o SubSeq(Pre, op.pos + 1, PreSize)
    IN  SubSeq(all, 1, Min(PreCap, Len(all)))

\* The slots of the wrap-around run of size() slots starting at m_first.
RunSlots(c) == {add(c, c.first, i) + 1 : i \in 0..(size(c) - 1)}

LiveSlots(c) == {i \in 1..capacity(c) : c.buff[i].live}

\* C1: after any sequence of mutating operations, 0 <= size() <= capacity()
\* and the number of live (constructed, not yet destroyed) slots is size().
C1_SizeWithinCapacityAndLive ==
    /\ size(cb) >= 0
    /\ size(cb) <= capacity(cb)
    /\ LiveCount(cb) = size(cb)

\* C2: after construction and after every operation, the live slots are
\* exactly the size() consecutive wrap-around slots starting at m_first, and
\* m_last is the slot (m_first + size()) mod capacity().
C2_LiveRunFromFirst ==
    /\ LiveSlots(cb) = RunSlots(cb)
    /\ capacity(cb) > 0 => cb.last = (cb.first + size(cb)) % capacity(cb)

\* The cursor half of C2 alone: m_last == (m_first + size()) mod capacity().
LastFollowsFirst ==
    capacity(cb) > 0 => cb.last = (cb.first + size(cb)) % capacity(cb)

\* C3: on a full buffer [a0..a(C-1)] of capacity C >= 1, push_back(x) leaves
\* [a1..a(C-1), x] and push_front(x) leaves [x, a0..a(C-2)]; size() and
\* capacity() both stay C.
C3_FullPushEvicts ==
    /\ (op.name = "push_back" /\ full(op.pre) /\ PreCap >= 1) =>
           /\ Contents(cb) = Tail(Pre) \o <<Item>>
           /\ size(cb) = PreCap
           /\ capacity(cb) = PreCap
    /\ (op.name = "push_front" /\ full(op.pre) /\ PreCap >= 1) =>
           /\ Contents(cb) = <<Item>> \o SubSeq(Pre, 1, PreCap - 1)
           /\ size(cb) = PreCap
           /\ capacity(cb) = PreCap

C3_Witness ==
    /\ op.name \in {"push_back", "push_front"}
    /\ full(op.pre)
    /\ PreCap >= 2
    /\ op.pre.first # 0
    /\ Pre[1] # Pre[2]

\* C4: on a non-full buffer [a0..a(s-1)], push_back(x) leaves [a0..a(s-1), x]
\* and push_front(x) leaves [x, a0..a(s-1)], size s+1; on a non-empty buffer
\* pop_back() leaves [a0..a(s-2)] and pop_front() leaves [a1..a(s-1)], size
\* s-1; capacity() is unchanged and the other elements keep value and order.
C4_PushPopAtTheEnds ==
    /\ (op.name = "push_back" /\ ~full(op.pre)) =>
           Contents(cb) = Pre \o <<Item>> /\ capacity(cb) = PreCap
    /\ (op.name = "push_front" /\ ~full(op.pre)) =>
           Contents(cb) = <<Item>> \o Pre /\ capacity(cb) = PreCap
    /\ op.name = "pop_back" =>
           Contents(cb) = SubSeq(Pre, 1, PreSize - 1) /\ capacity(cb) = PreCap
    /\ op.name = "pop_front" =>
           Contents(cb) = Tail(Pre) /\ capacity(cb) = PreCap

C4_Witness ==
    /\ op.name = "pop_front"
    /\ PreSize >= 2
    /\ op.pre.first > op.pre.last
    /\ Pre[1] # Pre[2]

\* C5: insert(pos, n, item) with pos at index k of s elements, capacity C,
\* keeps the capacity and puts m = min(n, C - (s - k)) copies of item before
\* the element formerly at k; the elements formerly at >= k are kept, the
\* first max(0, s + m - C) elements are dropped and the size is min(C, s + m).
C5_InsertFill ==
    op.name = "insert_fill" =>
        LET m == Min(op.n, PreCap - (PreSize - op.pos))
        IN  /\ Contents(cb) = FrontEvicted(Copies(m, Item))
            /\ SubSeq(Contents(cb), size(cb) - (PreSize - op.pos) + 1, size(cb))
                   = SubSeq(Pre, op.pos + 1, PreSize)
            /\ size(cb) = Min(PreCap, PreSize + m)
            /\ capacity(cb) = PreCap

\* The shape of the example: free slots, more copies asked for than fit,
\* front elements dropped and elements behind pos kept.
C5_Witness ==
    /\ op.name = "insert_fill"
    /\ ~full(op.pre)
    /\ op.pos >= 1
    /\ op.pos < PreSize
    /\ op.n > PreCap - (PreSize - op.pos)
    /\ Pre[op.pos + 1] # Item
    /\ full(cb)

\* C6: rinsert(pos, n, item) with pos at index k of s elements, capacity C,
\* keeps the capacity and puts m = min(n, C - k) copies of item before the
\* element formerly at k; the elements formerly at < k are kept, the last
\* max(0, s + m - C) elements are dropped and the size is min(C, s + m).
C6_RInsertFill ==
    op.name = "rinsert_fill" =>
        LET m == Min(op.n, PreCap - op.pos)
        IN  /\ Contents(cb) = BackEvicted(Copies(m, Item))
            /\ SubSeq(Contents(cb), 1, op.pos) = SubSeq(Pre, 1, op.pos)
            /\ size(cb) = Min(PreCap, PreSize + m)
            /\ capacity(cb) = PreCap

C6_Witness ==
    /\ op.name = "rinsert_fill"
    /\ ~full(op.pre)
    /\ op.pos >= 1
    /\ op.pos < PreSize
    /\ op.n > PreCap - op.pos
    /\ Pre[op.pos] # Item
    /\ full(cb)

\* C7: insert(pos, item) and rinsert(pos, item) put item before the element
\* formerly at pos and return an iterator that dereferences to it; on a full
\* buffer [a0..a(C-1)] insert at k (1 <= k <= C) leaves
\* [a1..a(k-1), item, a(k)..a(C-1)] and rinsert at k (0 <= k < C) leaves
\* [a0..a(k-1), item, a(k)..a(C-2)].
C7_InsertOne ==
    /\ (op.name = "insert" /\ (~full(op.pre) \/ op.pos >= 1)) =>
           /\ Contents(cb) = FrontEvicted(<<Item>>)
           /\ op.ret # NULL
           /\ deref(cb, op.ret) = Item
           /\ full(op.pre) =>
                  Contents(cb) = SubSeq(Pre, 2, op.pos) \o <<Item>>
                                     \o SubSeq(Pre, op.pos + 1, PreCap)
    /\ (op.name = "rinsert" /\ (~full(op.pre) \/ op.pos < PreCap)) =>
           /\ Contents(cb) = BackEvicted(<<Item>>)
           /\ op.ret # NULL
           /\ deref(cb, op.ret) = Item
           /\ full(op.pre) =>
                  Contents(cb) = SubSeq(Pre, 1, op.pos) \o <<Item>>
                                     \o SubSeq(Pre, op.pos + 1, PreCap - 1)

C7_Witness ==
    /\ op.name \in {"insert", "rinsert"}
    /\ full(op.pre)
    /\ PreCap >= 3
    /\ op.pos = 1
    /\ Pre[2] # Item
    /\ Contents(cb)[2] # Item

\* C8: when a range of length L does not fit, insert(pos, first, last) at
\* index k inserts the last m = min(L, C - (s - k)) elements of the range in
\* their order, and rinsert(pos, first, last) the first m = min(L, C - k)
\* elements in their order (for forward and for input iterators).
C8_RangeCut ==
    LET L == Len(op.w)
        mi == Min(L, PreCap - (PreSize - op.pos))
        mr == Min(L, PreCap - op.pos)
    IN  /\ op.name \in {"insert_range", "insert_input"} =>
               Contents(cb) = FrontEvicted(SubSeq(op.w, L - mi + 1, L))
        /\ op.name \in {"rinsert_range", "rinsert_input"} =>
               Contents(cb) = BackEvicted(SubSeq(op.w, 1, mr))

\* A range that is cut, of at least two different elements left after the cut.
C8_Witness ==
    /\ op.name \in {"insert_range", "insert_input"}
    /\ Len(op.w) > PreCap - (PreSize - op.pos)
    /\ PreCap - (PreSize - op.pos) >= 2
    /\ op.pos < PreSize
    /\ op.w[Len(op.w)] # op.w[Len(op.w) - 1]
    /\ op.w[1] # op.w[Len(op.w)]

\* C9: on a full buffer, insert at begin() in any form (item, n copies,
\* range) leaves the elements, size and capacity as they were and the
\* single-item form returns begin(); rinsert at end() in any form leaves the
\* buffer as it was and the single-item form returns end().
C9_FullInsertAtTheBound ==
    LET same == /\ Contents(cb) = Pre
                /\ size(cb) = PreSize
                /\ capacity(cb) = PreCap
    IN  /\ (/\ op.name \in {"insert", "insert_fill", "insert_range", "insert_input"}
            /\ full(op.pre)
            /\ op.pos = 0) => same
        /\ (op.name = "insert" /\ full(op.pre) /\ op.pos = 0) =>
               op.ret = begin(cb)
        /\ (/\ op.name \in {"rinsert", "rinsert_fill", "rinsert_range",
                            "rinsert_input"}
            /\ full(op.pre)
            /\ op.pos = PreSize) => cb = op.pre
        /\ (op.name = "rinsert" /\ full(op.pre) /\ op.pos = PreSize) =>
               op.ret = end(cb)

C9_Witness ==
    /\ op.name = "insert_input"
    /\ full(op.pre)
    /\ op.pos = 0
    /\ PreCap >= 2
    /\ Len(op.w) >= 2
    /\ Pre[1] # Item

\* C10: erase(pos) removes exactly the element at pos and erase(first, last)
\* exactly [first, last): the rest keep value and order, size() drops by the
\* number removed, capacity() is unchanged, and the returned iterator points
\* to the first remaining element behind the removed ones, or is end().
C10_Erase ==
    /\ op.name = "erase" =>
           /\ Contents(cb) = SubSeq(Pre, 1, op.pos) \o SubSeq(Pre, op.pos + 2, PreSize)
           /\ size(cb) = PreSize - 1
           /\ capacity(cb) = PreCap
           /\ op.ret = IterAt(cb, op.pos)
    /\ op.name = "erase_range" =>
           /\ Contents(cb) = SubSeq(Pre, 1, op.pos) \o SubSeq(Pre, op.pos2 + 1, PreSize)
           /\ size(cb) = PreSize - (op.pos2 - op.pos)
           /\ capacity(cb) = PreCap
           /\ op.ret = IterAt(cb, op.pos)

C10_Witness ==
    /\ op.name = "erase_range"
    /\ op.pos >= 1
    /\ op.pos2 = op.pos + 1
    /\ op.pos2 < PreSize
    /\ op.pre.first # 0
    /\ op.ret # NULL
    /\ deref(cb, op.ret) = Pre[op.pos2 + 1]
    /\ Pre[op.pos2 + 1] # Pre[op.pos2]

\* C11: rerase(pos) removes exactly the element at pos and rerase(first, last)
\* exactly [first, last): the rest keep value and order, size() drops by the
\* number removed, capacity() is unchanged, and the returned iterator points
\* to the last remaining element in front of the removed ones, or is begin()
\* if there is none.  (With first == last nothing is removed and the call
\* returns first.)
C11_RErase ==
    /\ op.name = "rerase" =>
           /\ Contents(cb) = SubSeq(Pre, 1, op.pos) \o SubSeq(Pre, op.pos + 2, PreSize)
           /\ size(cb) = PreSize - 1
           /\ capacity(cb) = PreCap
           /\ op.ret = IF op.pos = 0 THEN begin(cb) ELSE IterAt(cb, op.pos - 1)
    /\ op.name = "rerase_range" =>
           /\ Contents(cb) = SubSeq(Pre, 1, op.pos) \o SubSeq(Pre, op.pos2 + 1, PreSize)
           /\ size(cb) = PreSize - (op.pos2 - op.pos)
           /\ capacity(cb) = PreCap
           /\ op.pos < op.pos2 =>
                  op.ret = IF op.pos = 0 THEN begin(cb) ELSE IterAt(cb, op.pos - 1)
           /\ op.pos = op.pos2 => op.ret = IterAt(op.pre, op.pos)

\* An inner range of a wrapped buffer, with different elements on both sides.
C11_Witness ==
    /\ op.name = "rerase_range"
    /\ op.pos >= 1
    /\ op.pos2 = op.pos + 1
    /\ op.pos2 < PreSize
    /\ op.pre.first # 0
    /\ op.ret # NULL
    /\ deref(cb, op.ret) = Pre[op.pos]
    /\ Pre[op.pos] # Pre[op.pos2 + 1]

\* C12 as claimed: one erase(pos) or erase(first, last) performs at most
\* size()/2 element assignments (it shifts the shorter side).
C12_EraseShiftsShorterSide ==
    op.name \in {"erase", "erase_range"} => 2 * cb.assigned <= PreSize

\* C12 as amended: erase(pos) and erase(first, last) always shift the
\* elements behind the erased ones, one assignment for each of them (up to
\* size() - 1); the elements in front of the erased ones and m_first stay
\* where they are.
C12_EraseShiftsTheTail ==
    /\ op.name = "erase" => cb.assigned = PreSize - op.pos - 1
    /\ op.name = "erase_range" =>
           cb.assigned = IF op.pos = op.pos2 THEN 0 ELSE PreSize - op.pos2
    /\ op.name \in {"erase", "erase_range"} =>
           /\ cb.first = op.pre.first
           /\ \A i \in 0..(op.pos - 1) :
                  cb.buff[add(cb, cb.first, i) + 1] =
                      op.pre.buff[add(cb, cb.first, i) + 1]
           /\ cb.assigned <= Max(0, PreSize - 1)

\* Erasing the front element of three: the two behind it are assigned.
C12_Witness ==
    /\ op.name = "erase"
    /\ op.pos = 0
    /\ PreSize >= 3
    /\ cb.assigned = PreSize - 1
    /\ 2 * cb.assigned > PreSize

\* The buffer was wrapped when linearize was called: it had to rearrange.
PreWrapped ==
    /\ ~empty(op.pre)
    /\ ~(op.pre.first < op.pre.last \/ op.pre.last = 0)

\* C13: the sequence read through operator[] before linearize() is the
\* sequence read at the addresses p + 0 .. p + size() - 1 after p =
\* linearize() returned normally, and operator[] reads it afterwards too;
\* size() and capacity() are unchanged.
C13_LinearizeKeepsTheSequence ==
    (op.name = "linearize" /\ ~cb.thrown) =>
        /\ \A i \in 0..(PreSize - 1) :
               /\ op.ret # NULL
               /\ op.ret + i < capacity(cb)
               /\ deref(cb, op.ret + i) = Pre[i + 1]
        /\ Contents(cb) = Pre
        /\ size(cb) = PreSize
        /\ capacity(cb) = PreCap

C13_Witness ==
    /\ op.name = "linearize"
    /\ PreWrapped
    /\ ~full(op.pre)
    /\ PreSize >= 2
    /\ Pre[1] # Pre[2]
    /\ op.ret = 0

\* C14 as claimed: after linearize() returned normally on a non-empty buffer
\* the elements start at slot 0: m_first == m_buff and the returned pointer
\* is the start of the block.
C14_LinearizeStartsAtSlotZero ==
    (op.name = "linearize" /\ ~cb.thrown /\ ~empty(op.pre)) =>
        /\ cb.first = 0
        /\ op.ret = 0
        /\ LiveSlots(cb) = 1..size(cb)

\* C14 as amended: after linearize() returned normally on a non-empty buffer
\* the elements occupy one contiguous span in address order that starts at
\* the returned pointer, which is m_first (and the slots of the span are the
\* live ones if the live slots were those of the elements before); the span
\* starts at slot 0 when the buffer was wrapped before the call, and a
\* buffer that was contiguous already is left where it is.
C14_LinearizeOneSpan ==
    (op.name = "linearize" /\ ~cb.thrown /\ ~empty(op.pre)) =>
        /\ op.ret = cb.first
        /\ cb.first + size(cb) <= capacity(cb)
        /\ RunSlots(cb) = (cb.first + 1)..(cb.first + size(cb))
        /\ LiveSlots(op.pre) = RunSlots(op.pre) => LiveSlots(cb) = RunSlots(cb)
        /\ PreWrapped => cb.first = 0
        /\ ~PreWrapped => cb.first = op.pre.first /\ cb.buff = op.pre.buff

C14_Witness ==
    /\ op.name = "linearize"
    /\ PreWrapped
    /\ PreSize >= 2
    /\ op.pre.first = 2
    /\ cb.first = 0
    /\ LiveSlots(cb) = 1..PreSize

\* C15: a second linearize() right after the first returns the same pointer
\* and changes neither the contents nor the cursors.
C15_LinearizeTwice ==
    [][(op.name = "linearize" /\ op'.name = "linearize") =>
           /\ op'.ret = op.ret
           /\ cb'.buff = cb.buff
           /\ cb'.first = cb.first
           /\ cb'.last = cb.last
           /\ cb'.size = cb.size]_vars

\* The second of two calls, the first of which found a wrapped buffer.
C15_Witness ==
    /\ op.name = "linearize"
    /\ op.n = 2
    /\ size(cb) >= 2
    /\ op.ret = 0
    /\ cb.last # 0

\* The last call left by an exception.
Threw(names) == op.name \in names /\ cb.thrown

\* The cursors and the live slots agree: size() <= capacity(), the live
\* slots are the size() wrap-around slots from m_first, and m_last is
\* (m_first + size()) mod capacity().
Sound(c) ==
    /\ size(c) <= capacity(c)
    /\ LiveSlots(c) = RunSlots(c)
    /\ LiveCount(c) = size(c)
    /\ capacity(c) > 0 => c.last = (c.first + size(c)) % capacity(c)

\* The slot push_back or push_front was to construct the element in.
PushTarget ==
    IF op.name = "push_back" THEN op.pre.last
    ELSE decrement(op.pre, op.pre.first)

\* C18: if constructing the element throws during push_back or push_front on
\* a non-full buffer, the target slot remains raw (no slot is touched) and
\* m_first, m_last, size() and the element sequence are as before the call.
C18_PushThrowsNonFull ==
    (Threw({"push_back", "push_front"}) /\ ~full(op.pre)) =>
        /\ cb.buff = op.pre.buff
        /\ ~op.pre.buff[PushTarget + 1].live => ~cb.buff[PushTarget + 1].live
        /\ cb.first = op.pre.first
        /\ cb.last = op.pre.last
        /\ size(cb) = PreSize
        /\ Contents(cb) = Pre

C18_Witness ==
    /\ Threw({"push_front"})
    /\ ~full(op.pre)
    /\ PreSize >= 1
    /\ op.pre.first = 0
    /\ ~cb.buff[PushTarget + 1].live
    /\ cb.first = 0

InsertNames ==
    {"insert", "insert_fill", "insert_range", "insert_input",
     "rinsert", "rinsert_fill", "rinsert_range", "rinsert_input"}

\* C19: if a construction or assignment throws inside insert or rinsert (any
\* form, position, n and free space), on exit size() and the cursors match
\* the live slots: the live slots are the size() wrap-around slots from
\* m_first, m_last == (m_first + size()) mod capacity(), size() <= capacity().
C19_InsertThrowsSound ==
    (Threw(InsertNames) /\ Sound(op.pre)) => Sound(cb)

\* C20: if a construction, assignment or swap throws inside linearize(), on
\* exit the number of live slots is size(), the live slots are the size()
\* wrap-around slots from m_first, m_last == (m_first + size()) mod
\* capacity(), and size() <= capacity().
C20_LinearizeThrowsSound ==
    (Threw({"linearize"}) /\ Sound(op.pre)) => Sound(cb)

\* An exception after linearize had constructed an element in a raw slot.
C20_Witness ==
    /\ Threw({"linearize"})
    /\ Sound(op.pre)
    /\ size(cb) = PreSize + 1
    /\ cb.last = op.pre.last + 1

\* C16: if copying an element throws during set_capacity, rset_capacity or an
\* assign that changes the capacity, the block the call allocated has been
\* released with no constructed element left in it, and the buffer's block,
\* cursors, size, capacity and element sequence are those before the call.
AssignNames == {"assign", "assign_range", "assign_input"}

ConstructorNames ==
    {"circular_buffer_fill", "circular_buffer_copy", "circular_buffer_range",
     "circular_buffer_input", "circular_buffer_input_capacity"}

C17_ConstructorThrowsNoLeak ==
    Threw(ConstructorNames)
    => /\ cb.buff = <<>>
       /\ cb.nbuff = <<>>
       /\ cb.lost = 0

\* The iterators the caller held when the call was made, and the logical
\* position each was taken at.
Held == {op.pre.reg[i] : i \in 1..Len(op.pre.reg)}

PositionOf(it) == it.id % (MaxCapacity + 1)

\* C21: in the debug build a push, pop, insert, rinsert, erase or rerase
\* invalidates an iterator to an element exactly when it destroys or
\* overwrites the slot the iterator points to.  In particular push_back on a
\* full buffer invalidates the iterators to the front element, pop_back only
\* those to the last element, erase those at or after the first erased
\* element and none before, rerase those at or before the last erased element
\* and none after.
ElementCalls ==
    {"push_back", "push_front", "pop_back", "pop_front", "insert",
     "insert_fill", "insert_range", "insert_input", "rinsert", "rinsert_fill",
     "rinsert_range", "rinsert_input", "erase", "erase_range", "rerase",
     "rerase_range"}

C21_InvalidatedIffSlotTouched ==
    op.name \in ElementCalls =>
        \A it \in Held :
            it.m_it # NULL =>
                /\ is_valid(cb, it.id) <=> it.m_it \notin cb.written
                /\ (op.name = "push_back" /\ full(op.pre) /\ PositionOf(it) = 0)
                   => ~is_valid(cb, it.id)
                /\ op.name = "pop_back"
                   => (is_valid(cb, it.id) <=> PositionOf(it) # PreSize - 1)
                /\ op.name = "erase"
                   => (is_valid(cb, it.id) <=> PositionOf(it) < op.pos)
                /\ (op.name = "erase_range" /\ op.pos < op.pos2)
                   => (is_valid(cb, it.id) <=> PositionOf(it) < op.pos)
                /\ op.name = "rerase"
                   => (is_valid(cb, it.id) <=> PositionOf(it) > op.pos)
                /\ (op.name = "rerase_range" /\ op.pos < op.pos2)
                   => (is_valid(cb, it.id) <=> PositionOf(it) >= op.pos2)

\* erase(begin() + 1) on three elements, the caller holding iterators to all.
C21_Witness ==
    /\ op.name = "erase"
    /\ op.pos = 1
    /\ PreSize = 3
    /\ Cardinality(Held) = 8
    /\ is_valid(cb, 0)
    /\ ~is_valid(cb, 1)
    /\ ~is_valid(cb, 2)

\* The second buffer of the call, before and after it.
PreOther == op.pre.other[1]

Other == cb.other[1]

\* C22: a.swap(b) exchanges the element sequences, sizes and capacities of
\* the two buffers, a.swap(a) leaves the contents as they were, and every
\* iterator of both buffers, those equal to end() included, is invalid
\* afterwards.
C22_Swap ==
    /\ op.name = "swap"
       => /\ Contents(cb) = Contents(PreOther)
          /\ size(cb) = size(PreOther)
          /\ capacity(cb) = capacity(PreOther)
          /\ Contents(Other) = Pre
          /\ size(Other) = PreSize
          /\ capacity(Other) = PreCap
          /\ \A it \in Held : ~is_valid(cb, it.id)
          /\ \A i \in 1..Len(PreOther.reg) : ~is_valid(Other, PreOther.reg[i].id)
    /\ op.name = "swap_self"
       => /\ Contents(cb) = Pre
          /\ size(cb) = PreSize
          /\ capacity(cb) = PreCap
          /\ \A it \in Held : ~is_valid(cb, it.id)

\* Two buffers of different size and capacity are swapped while the caller
\* holds iterators of both.
C22_Witness ==
    /\ op.name = "swap"
    /\ PreSize = 2
    /\ PreCap = 3
    /\ op.pre.first = 2
    /\ size(PreOther) = 1
    /\ capacity(PreOther) = 2
    /\ Len(op.pre.reg) = 6
    /\ Len(PreOther.reg) = 4

\* C24: in the debug build, once a buffer has been destroyed every iterator
\* obtained from it (iterators equal to end() and copies included) reports
\* is_valid() = FALSE.
C24_DestroyedBufferInvalidatesAll ==
    op.name = "destructor" => \A it \in Held : ~is_valid(cb, it.id)

\* The layout of a buffer: its block, cursors and size.
Layout(c) == <<c.buff, c.first, c.last, c.size>>

C25_CapacityBounds ==
    (is_optimized /\ ~cb.thrown) =>
        /\ min_capacity(cb) <= internal_capacity(cb)
        /\ internal_capacity(cb) <= optimized_capacity(cb)
        /\ size(cb) <= internal_capacity(cb)

\* The calls of C26, and how many elements each adds.
MirroredCalls ==
    {"optimized_push_back", "optimized_push_front", "optimized_pop_back",
     "optimized_pop_front", "optimized_insert", "optimized_insert_fill",
     "optimized_rinsert", "optimized_rinsert_fill", "optimized_erase",
     "optimized_erase_range", "optimized_rerase", "optimized_rerase_range",
     "optimized_clear"}

Added ==
    IF op.name \in {"optimized_push_back", "optimized_push_front",
                    "optimized_insert", "optimized_rinsert"} THEN 1
    ELSE IF op.name \in {"optimized_insert_fill", "optimized_rinsert_fill"}
    THEN op.n
    ELSE size(cb) - PreSize

\* C26: given the same pushes, pops, inserts, erasures and clears, a space
\* optimized buffer of capacity C shows the element sequence, size(),
\* empty() and full() of a plain circular_buffer of capacity C; full() is
\* size() = C whatever the internal capacity; no element is evicted while
\* there is room below C.
C26_MirrorsThePlainBuffer ==
    (is_optimized /\ cb.other # <<>> /\ op.name \in MirroredCalls) =>
        /\ capacity(Other) = optimized_capacity(cb)
        /\ Contents(cb) = Contents(Other)
        /\ size(cb) = size(Other)
        /\ empty(cb) = empty(Other)
        /\ optimized_full(cb) = full(Other)
        /\ optimized_full(cb) <=> size(cb) = optimized_capacity(cb)
        /\ PreSize + Added <= optimized_capacity(op.pre) =>
               size(cb) = PreSize + Added

\* A push has found the block full below the capacity: the block has grown,
\* nothing was evicted, and the plain buffer shows the same sequence.
C26_Witness ==
    /\ op.name = "optimized_push_back"
    /\ cb.other # <<>>
    /\ PreSize = internal_capacity(op.pre)
    /\ 0 < PreSize
    /\ PreSize < optimized_capacity(op.pre)
    /\ internal_capacity(cb) > internal_capacity(op.pre)
    /\ Contents(cb) = Pre \o <<Item>>
    /\ Contents(cb) = Contents(Other)

\* C28: on return from pop_back, pop_front, erase or rerase of a space
\* optimized buffer, internal capacity / 3 < size() or the internal
\* capacity is min_capacity.
C28_ShrunkOnReturn ==
    op.name \in {"optimized_pop_back", "optimized_pop_front",
                 "optimized_erase", "optimized_erase_range",
                 "optimized_rerase", "optimized_rerase_range"} =>
        \/ internal_capacity(cb) \div 3 < size(cb)
        \/ internal_capacity(cb) = min_capacity(cb)

\* A pop of the only element has halved the block twice,
\* from 2 slots to none, down to the minimal capacity 0 of a buffer of
\* capacity 4.
C28_Witness ==
    /\ op.name = "optimized_pop_back"
    /\ optimized_capacity(cb) = 4
    /\ min_capacity(cb) = 0
    /\ internal_capacity(op.pre) = 2
    /\ PreSize = 1
    /\ internal_capacity(cb) = 0

\* The last call changed the size of the block.
Reallocated == internal_capacity(cb) # internal_capacity(op.pre)

\* C27: on a space optimized buffer of capacity 100 that starts empty, a
\* single push that changes the internal capacity is never followed at once
\* by a single pop that changes it again, nor such a pop by such a push.
C27_NoThrashing ==
    [][(/\ op.name \in {"optimized_push_back", "optimized_pop_back"}
        /\ Reallocated
        /\ op'.name \in {"optimized_push_back", "optimized_pop_back"}
        /\ op'.name # op.name)
       => internal_capacity(cb') = internal_capacity(cb)]_vars

\* Every iterator to an element the caller held is invalid.
ElementIteratorsInvalid ==
    \A it \in Held : it.m_it # NULL => ~is_valid(cb, it.id)

\* Every iterator equal to end() the caller held is still valid.
EndIteratorsValid ==
    \A it \in Held : it.m_it = NULL => is_valid(cb, it.id)

\* C23 as stated: in the debug build set_capacity, clear, resize and every
\* call that reallocates the storage invalidate every iterator to an element
\* of the buffer, and the iterators equal to end() stay valid after resize
\* and set_capacity.
C23_BulkInvalidation ==
    /\ (\/ op.name \in {"set_capacity", "clear", "resize",
                        "optimized_set_capacity", "optimized_clear",
                        "optimized_resize"}
        \/ Reallocated)
       => ElementIteratorsInvalid
    /\ op.name \in {"set_capacity", "resize", "optimized_set_capacity",
                    "optimized_resize"}
       => EndIteratorsValid

\* The calls of the plain buffer that return with nothing done to the
\* elements it held: set_capacity(capacity()), and resize(n) with
\* size() <= n <= capacity().
LeavesElements ==
    \/ op.name = "set_capacity" /\ op.n = PreCap
    \/ op.name = "resize" /\ PreSize <= op.n /\ op.n <= PreCap

\* C23 (amended): in the debug build set_capacity, clear, resize and every
\* call that reallocates the storage invalidate every iterator to an element
\* of the buffer, but for set_capacity(capacity()) and resize(n) with
\* size() <= n <= capacity() on the plain buffer, which invalidate no
\* iterator; the iterators equal to end() stay valid after resize and
\* set_capacity.
C23_BulkInvalidationAmended ==
    /\ (/\ \/ op.name \in {"set_capacity", "clear", "resize",
                           "optimized_set_capacity", "optimized_clear",
                           "optimized_resize"}
           \/ Reallocated
        /\ ~LeavesElements)
       => ElementIteratorsInvalid
    /\ LeavesElements => \A it \in Held : is_valid(cb, it.id)
    /\ op.name \in {"set_capacity", "resize", "optimized_set_capacity",
                    "optimized_resize"}
       => EndIteratorsValid

\* set_capacity on a space optimized buffer of two elements, the caller
\* holding iterators to both and to end(), and a copy of each.
C23_Witness ==
    /\ op.name = "optimized_set_capacity"
    /\ PreSize = 2
    /\ size(cb) = 2
    /\ Len(op.pre.reg) = 6
    /\ ~is_valid(cb, 0)
    /\ ~is_valid(cb, 1)
    /\ is_valid(cb, 2)
    /\ is_valid(cb, 2 + MaxCapacity + 1)

\* C31: assign(n, item) leaves size() = n, capacity() = n and n elements
\* equal to item; assign(first, last) leaves size() = capacity() =
\* distance(first, last) and the elements of the range in order; nothing of
\* the previous contents remains, whatever the previous capacity was.
C31_Assign ==
    (op.name \in AssignNames /\ ~cb.thrown)
    => /\ size(cb) = op.n
       /\ capacity(cb) = op.n
       /\ Contents(cb) = IF op.name = "assign" THEN Copies(op.n, Item)
                         ELSE op.w
       /\ LiveSlots(cb) = 1..op.n
       /\ cb.lost = 0

\* assign(2, item) on a full, wrapped buffer of capacity 3.
C31_Witness ==
    /\ op.name = "assign"
    /\ ~cb.thrown
    /\ op.n = 2
    /\ PreCap = 3
    /\ PreSize = 3
    /\ op.pre.first = 1
    /\ Item \notin {Pre[i] : i \in 1..3}

\* C32: a copy-constructed buffer and the target of a copy assignment have
\* the size and the element sequence of the source, whatever its layout;
\* after a = b the capacity of a is that of b, whatever it was before; and
\* a = a leaves a as it was.
C32_Copy ==
    /\ op.name \in {"circular_buffer_copy", "operator_assign"}
       => /\ size(cb) = PreSize
          /\ Contents(cb) = Pre
    /\ op.name = "operator_assign" => capacity(cb) = PreCap
    /\ op.name = "operator_assign_self" => Layout(cb) = Layout(op.pre)

\* A wrapped buffer of two elements and capacity 3 is assigned to a full
\* buffer of capacity 1.
C32_Witness ==
    /\ op.name = "operator_assign"
    /\ PreSize = 2
    /\ PreCap = 3
    /\ op.pre.first = 2
    /\ op.n = 1
    /\ Len(op.w) = 1
    /\ Pre[1] # Pre[2]
    /\ capacity(cb) = 3

\* C38: a copy-constructed buffer has the capacity of its source, also when
\* the source is not full, so that it is full exactly when the source is.
C38_CopyKeepsCapacity ==
    op.name = "circular_buffer_copy"
    => /\ capacity(cb) = PreCap
       /\ full(cb) <=> full(op.pre)

\* C33: at(index) throws std::out_of_range exactly when index >= size(), and
\* otherwise yields the element operator[](index) yields; either way the
\* block, the cursors and the size are as they were.
C33_At ==
    op.name = "at"
    => /\ op.ret = out_of_range <=> op.pos >= PreSize
       /\ op.pos < PreSize
          => /\ op.ret = operator_index(op.pre, op.pos)
             /\ op.ret = Pre[op.pos + 1]
       /\ Layout(cb) = Layout(op.pre)

\* at(1) on a wrapped buffer of two elements.
C33_Witness ==
    /\ op.name = "at"
    /\ PreSize = 2
    /\ PreCap = 3
    /\ op.pre.first = 2
    /\ op.pos = 1
    /\ op.ret = Pre[2]
    /\ Pre[1] # Pre[2]

\* The calls that put elements in.
AddingCalls ==
    {"push_back", "push_front", "insert", "insert_fill", "insert_range",
     "insert_input", "rinsert", "rinsert_fill", "rinsert_range",
     "rinsert_input"}

\* C34: on a buffer of capacity 0, push_back, push_front, insert and rinsert
\* (one item, n copies, a range) do nothing and construct nothing: the
\* buffer stays empty, size() = 0, capacity() = 0, and empty() and full() are
\* both true.
C34_CapacityZero ==
    (op.name \in AddingCalls /\ PreCap = 0)
    => /\ size(cb) = 0
       /\ capacity(cb) = 0
       /\ empty(cb)
       /\ full(cb)
       /\ Layout(cb) = Layout(op.pre)
       /\ ~cb.thrown
       /\ cb.trigger = op.pre.trigger
       /\ cb.assigned = 0
       /\ ~cb.ub

\* insert(begin(), first, last) of two elements into a buffer of capacity 0
\* while the next copy of an element would throw.
C34_Witness ==
    /\ op.name = "insert_range"
    /\ PreCap = 0
    /\ Len(op.w) = 2
    /\ op.pre.trigger = 1
    /\ ~cb.thrown

\* C35: in every operation and for every layout the buffer can be in,
\* construction is applied to raw slots only, and assignment and destruction
\* to live slots only.
C35_SlotDiscipline == ~cb.ub

\* C36: for the iterators i = begin() + p and j = begin() + q of a buffer,
\* p and q in 0..size() (size() being end()), i - j = p - q and i < j holds
\* exactly when p < q, in every layout: linear, wrapped, and full, where
\* end() and begin() stand for the same slot.
C36_IteratorOrder ==
    op.name = "iterator_compare"
    => /\ op.ret = op.pos - op.n
       /\ op.pos2 = 1 <=> op.pos < op.n

\* end() - begin() and end() < begin() on a full buffer whose first element
\* is not in slot 0.
C36_Witness ==
    /\ op.name = "iterator_compare"
    /\ PreSize = 3
    /\ PreCap = 3
    /\ op.pre.first = 1
    /\ op.pos = 3
    /\ op.n = 0
    /\ op.ret = 3
    /\ op.pos2 = 0

\* C37: array_one() followed by array_two() is the element sequence: the two
\* lengths add up to size(), the elements of array_one in address order
\* followed by those of array_two are (*this)[0 .. size() - 1], and
\* array_two is empty whenever the run of elements does not wrap (the
\* empty buffer and the full buffer starting at slot 0 included).
C37_Arrays ==
    op.name = "array"
    => /\ op.pos2 + op.n = PreSize
       /\ op.w = Pre
       /\ op.pre.first + PreSize <= PreCap => op.n = 0

\* A full buffer of capacity 3 that starts at slot 1, its elements not all
\* alike: two in array_one, one in array_two.
C37_Witness ==
    /\ op.name = "array"
    /\ PreCap = 3
    /\ PreSize = 3
    /\ op.pre.first = 1
    /\ op.pos2 = 2
    /\ op.n = 1
    /\ op.w[1] # op.w[3]

\* The calls of the space optimized buffer that take elements out.
RemovingCalls ==
    {"optimized_pop_back", "optimized_pop_front", "optimized_erase",
     "optimized_erase_range", "optimized_rerase", "optimized_rerase_range",
     "optimized_clear"}

EmptiedInPlace ==
    /\ size(cb) = 0
    /\ LiveSlots(cb) = {}
    /\ cb.first = cb.last
    /\ capacity(cb) = PreCap

\* C40 as stated: when a copy of an element throws during assign(n, item) or
\* assign(first, last) with n (the length of the range) equal to the
\* capacity, the buffer is left empty and consistent: size() = 0, no slot
\* live, m_first = m_last, and the capacity as it was.
C40_AssignThrowsEmpties ==
    (Threw(AssignNames) /\ op.n = PreCap) => EmptiedInPlace

\* assign(first, last) for input iterators threw while the range was being
\* copied into the temporary std::deque.
ThrewInDeque == op.name = "assign_input" /\ op.pre.trigger <= Len(op.w)

\* C40 (amended): when a copy of an element throws during assign(n, item) or
\* assign(first, last) with n (the length of the range) equal to the
\* capacity, the buffer is left empty and consistent: size() = 0, no slot
\* live, m_first = m_last, and the capacity as it was; but when the range is
\* of input iterators and the copy throws while the range is read, the
\* buffer is left as it was.
C40_AssignThrowsEmptiesOrKeeps ==
    (Threw(AssignNames) /\ op.n = PreCap)
    => IF ThrewInDeque
       THEN /\ Layout(cb) = Layout(op.pre)
            /\ Contents(cb) = Pre
       ELSE EmptiedInPlace

\* assign(3, item) on a buffer of capacity 3 holding two elements from slot
\* 1 on, the second copy of item throwing.
C40_Witness ==
    /\ Threw({"assign"})
    /\ op.n = 3
    /\ PreCap = 3
    /\ PreSize = 2
    /\ op.pre.first = 1
    /\ op.pre.trigger = 2
    /\ cb.first = 0
====
